---- MODULE Spec2Model ----
(***************************************************************************)
(* Verification model of the HackLLM document pipeline: deduplication,     *)
(* ingestion (extraction, segmentation, batched embedding, persistence),   *)
(* the embedding batcher and the vector acceptance of the similarity       *)
(* store.  Identifiers keep the names of the Python source.                *)
(***************************************************************************)
EXTENDS Integers, Sequences, FiniteSets, Bags, TLC

\* ------------------------------------------------------------------ bounds
\* most units (pages) the extractor yields for one document
MaxUnits == 2

\* most failures the collaborators (relational store, similarity store,
\* extractor) raise in one behaviour
MaxFaults == 1

\* the concurrent requests of the model
Workers == {"w1", "w2"}

\* Python's None, for strings, identifiers, vectors and document references
Null == "None"
NoId == 0
NoVec == [tag |-> "none"]
NoRef == [file_name |-> "", file_size |-> 0, first_words |-> ""]
NoErr == -1

\* ------------------------------------------------- configuration (app/...)
\* document_service.py:27  number of configured API keys (GOOGLE_API_KEY)
num_api_keys == 1

\* vector_store.py:18
VECTOR_DIM == 768

MB == 1024 * 1024

Max2(a, b) == IF a >= b THEN a ELSE b
Min2(a, b) == IF a <= b THEN a ELSE b

\* document_service.py:30-32
max_safe_batch == Max2(5, Min2(num_api_keys * 3, 15))
med_safe_batch == Max2(5, Min2(num_api_keys * 2, 10))
min_safe_batch == Max2(3, Min2(num_api_keys, 8))

Tiers == <<"small", "medium", "large", "xlarge">>

\* document_service.py:38-43  (xlarge has max_size = inf: Bounded is FALSE)
size_configs ==
  [small  |-> [bounded |-> TRUE,  max_size |-> 10 * MB,  timeout |-> 30,  chunk_batch |-> max_safe_batch],
   medium |-> [bounded |-> TRUE,  max_size |-> 50 * MB,  timeout |-> 120, chunk_batch |-> med_safe_batch],
   large  |-> [bounded |-> TRUE,  max_size |-> 200 * MB, timeout |-> 300, chunk_batch |-> min_safe_batch],
   xlarge |-> [bounded |-> FALSE, max_size |-> 0,        timeout |-> 600, chunk_batch |-> min_safe_batch]]

\* document_service.py:45-50  first tier, in insertion order, whose max_size
\* admits the file size
RECURSIVE FirstTier(_, _)
FirstTier(file_size, k) ==
  IF k > Len(Tiers) THEN "xlarge"
  ELSE LET c == size_configs[Tiers[k]] IN
       IF (~c.bounded) \/ file_size <= c.max_size THEN Tiers[k]
       ELSE FirstTier(file_size, k + 1)

get_config_for_size(file_size) ==
  LET t == FirstTier(file_size, 1) IN
  [type |-> t, timeout |-> size_configs[t].timeout,
   chunk_batch |-> size_configs[t].chunk_batch]

\* utils.py:8-11  the digest input is the "_"-joined triple; the digest
\* itself is taken as collision free on its input
hash_pdf_metadata(file_name, file_size, first_words) ==
  <<"md5", file_name \o "_" \o ToString(file_size) \o "_" \o first_words>>

\* the documents requests refer to: (file_name, file_size, first_words)
DocRefs ==
  { [file_name |-> "a.pdf", file_size |-> 5 * MB,   first_words |-> "policy"],
    [file_name |-> "b.pdf", file_size |-> 30 * MB,  first_words |-> "policy"],
    [file_name |-> "c.pdf", file_size |-> 100 * MB, first_words |-> "policy"],
    [file_name |-> "d.pdf", file_size |-> 300 * MB, first_words |-> "policy"] }

\* a document ingested before the behaviour starts: its rows are in the stores
OldRef == [file_name |-> "old.pdf", file_size |-> 1 * MB, first_words |-> "intro"]
OldDocId == 1

HashOf(r) == hash_pdf_metadata(r.file_name, r.file_size, r.first_words)
TierOf(r) == get_config_for_size(r.file_size).type
BatchOf(r) == get_config_for_size(r.file_size).chunk_batch

\* ------------------------------------------------------------- text units
\* what the extractor can yield for a document: up to MaxUnits units
UnitSeqs == UNION {[1..n -> {0, 3}] : n \in 0..MaxUnits}

\* A unit of extracted text is described by the number of structural
\* sections with substantial content (> 30 characters) it holds.

\* chunkCreator.py:7-70 on the accumulated text: one chunk per substantial
\* section, in source order; sections without content give no chunk.  A chunk
\* is named by its source unit and its position in that unit.
RECURSIVE SectionsOf(_, _, _)
SectionsOf(p, n, k) ==
  IF k > n THEN <<>> ELSE <<[unit |-> p, sec |-> k]>> \o SectionsOf(p, n, k + 1)

RECURSIVE ChunksFrom(_, _)
ChunksFrom(full_text, p) ==
  IF p > Len(full_text) THEN <<>>
  ELSE SectionsOf(p, full_text[p], 1) \o ChunksFrom(full_text, p + 1)

chunk_pageText(full_text) == ChunksFrom(full_text, 1)

\* ---------------------------------------------------------------- vectors
\* A list value is a sequence of runs [k, n]: n consecutive elements that
\* are numbers (k = "num") or not numbers (k = "junk").
NumRun(n) == [k |-> "num", n |-> n]
JunkRun(n) == [k |-> "junk", n |-> n]

RECURSIVE RunsLen(_)
RunsLen(runs) == IF runs = <<>> THEN 0 ELSE Head(runs).n + RunsLen(Tail(runs))

RECURSIVE NumCount(_)
NumCount(runs) ==
  IF runs = <<>> THEN 0
  ELSE (IF Head(runs).k = "num" THEN Head(runs).n ELSE 0) + NumCount(Tail(runs))

FlatList(runs) == [tag |-> "list", runs |-> runs]
NestedList(first, more) == [tag |-> "nested", first |-> first, more |-> more]
DictOf(key, val) == [tag |-> "dict", key |-> key, val |-> val]
FloatVec(n) == FlatList(<<NumRun(n)>>)

\* vector_store.py:137-141  [float(x) for x in vector if isinstance(x, (int, float))]
KeepNumbers(runs) ==
  LET c == NumCount(runs) IN IF c > 0 THEN FloatVec(c) ELSE NoVec

\* vector_store.py:112-145
RECURSIVE normalize_vector(_)
normalize_vector(vector) ==
  IF vector.tag = "none" THEN NoVec
  ELSE IF vector.tag = "dict"
       THEN IF vector.key \in {"default_vector", "vector", "embedding"}
            THEN normalize_vector(vector.val) ELSE NoVec
  ELSE IF vector.tag = "nested"
       THEN IF RunsLen(vector.first) > 0 THEN KeepNumbers(vector.first) ELSE NoVec
  ELSE IF vector.tag = "list"
       THEN IF RunsLen(vector.runs) = 0 THEN NoVec ELSE KeepNumbers(vector.runs)
  ELSE NoVec

VecLen(v) == RunsLen(v.runs)

\* what embed_chunks_async hands back for one batch: every item a flat list
\* of floats or None (embeddings.py:141-177)
EmbedPatterns == {"ok", "null", "mixed", "baddim"}

EmbedResult(pat, idx) ==
  CASE pat = "ok" -> FloatVec(VECTOR_DIM)
    [] pat = "null" -> NoVec
    [] pat = "mixed" -> IF idx % 2 = 0 THEN FloatVec(VECTOR_DIM) ELSE NoVec
    [] OTHER -> FloatVec(VECTOR_DIM \div 2)

\* ------------------------------------------- embedding batcher (pure part)
\* most texts handed to one embed_chunks_async call
MaxTexts == 4

\* most failures in a row the environment answers one item with
MaxFails == 3

\* embeddings.py:15-24  the keys of GOOGLE_API_KEY, as in document_service.py
NUM_API_KEYS == num_api_keys

\* embeddings.py:28
SMART_BATCH_SIZE == Max2(3, Min2(NUM_API_KEYS * 2, 10))

\* mutant: one attempt more
FourAttempts == 3 + 1

\* embeddings.py:100 and the default of gemini.py:60
max_retries == 3

\* A text is a string of at least 5 characters ("ok"), a shorter string
\* ("short") or a value that is not a string ("bad"); id tells texts apart.
TextKinds == {"ok", "short", "bad"}
TextSeqs ==
  UNION {{[p \in 1..n |-> [kind |-> k[p], id |-> p]] : k \in [1..n -> TextKinds]} :
         n \in 0..MaxTexts}

\* How the environment treats the requests of one item: the first nfail of
\* them fail.  level "upstream": genai.embed_content raises an error whose
\* message is of class cls, or answers in an unknown format (cls "format");
\* level "await": the awaited executor call raises into
\* embed_single_chunk_async.  Classes by message: "rate" (quota/limit/rate),
\* "conn" (timeout/connection), "other" (neither).
Scripts ==
  {[level |-> "upstream", cls |-> "none", nfail |-> 0]}
  \cup {[level |-> "upstream", cls |-> c, nfail |-> n] :
          c \in {"rate", "conn", "other", "format"}, n \in 1..MaxFails}
  \cup {[level |-> "await", cls |-> c, nfail |-> n] :
          c \in {"rate", "conn", "other"}, n \in 1..MaxFails}

\* level "mixed": the first awaited call raises before a request is sent
\* and the first nfail requests of the call after it fail
MixedScripts ==
  {[level |-> "mixed", cls |-> c, nfail |-> n] :
     c \in {"rate", "conn", "other"}, n \in 1..MaxFails}

\* the embedding the upstream service computes for a text
EmbeddingFor(text) == <<[k |-> "num", n |-> VECTOR_DIM, of |-> text.id]>>

\* what a coroutine that raised leaves in the gather result
Raised == [tag |-> "exception"]

\* embeddings.py:141-177  (float(x) of an element that is not a number
\* raises, and the result is None)
RECURSIVE normalize_embedding(_)
normalize_embedding(raw_embedding) ==
  IF raw_embedding.tag = "none" THEN NoVec
  ELSE IF raw_embedding.tag = "nested"
       THEN IF RunsLen(raw_embedding.first) > 0
                 /\ NumCount(raw_embedding.first) = RunsLen(raw_embedding.first)
            THEN FlatList(raw_embedding.first) ELSE NoVec
  ELSE IF raw_embedding.tag = "list"
       THEN IF RunsLen(raw_embedding.runs) > 0
                 /\ NumCount(raw_embedding.runs) = RunsLen(raw_embedding.runs)
            THEN raw_embedding ELSE NoVec
  ELSE IF raw_embedding.tag = "dict"
       THEN IF raw_embedding.key = "embedding"
            THEN normalize_embedding(raw_embedding.val) ELSE NoVec
  ELSE NoVec

\* gemini.py:60-109  the attempts of one embed_text call from the given
\* attempt on, when the next `fails` requests fail: the value returned, the
\* requests sent and the seconds slept
RECURSIVE embed_text(_, _, _, _)
embed_text(text, cls, fails, attempt) ==
  IF text.kind # "ok" \/ attempt >= max_retries
  THEN [raw |-> NoVec, calls |-> 0, slept |-> <<>>]
  ELSE IF fails = 0
  THEN [raw |-> NestedList(EmbeddingFor(text), 0), calls |-> 1, slept |-> <<>>]
  ELSE LET nap == IF cls = "rate" THEN <<2 ^ attempt>> ELSE <<>>
           rest == IF cls # "format" /\ attempt = max_retries - 1
                   THEN [raw |-> NoVec, calls |-> 0, slept |-> <<>>]
                   ELSE embed_text(text, cls, fails - 1, attempt + 1)
       IN [raw |-> rest.raw, calls |-> rest.calls + 1, slept |-> nap \o rest.slept]

\* embeddings.py:117-139  the handler lets the loop go on unless the attempt
\* was the last one, whatever the class of the failure
RetryGoesOn(cls, attempt) == attempt < max_retries - 1

\* mutant: the same wait before every retry
RetryDelayFlat(cls, attempt) ==
  IF cls \in {"rate", "conn"} THEN <<1>> ELSE <<>>

\* embeddings.py:123, 131  the wait before the next attempt
RetryDelay(cls, attempt) ==
  IF cls = "rate" THEN <<2 ^ attempt>>
  ELSE IF cls = "conn" THEN <<attempt + 1>>
  ELSE <<>>

\* embeddings.py:100-139  the retry loop from the given attempt on: the
\* result, the upstream requests sent, the attempts made and the waits
RECURSIVE retry_loop(_, _, _, _)
retry_loop(chunk, script, fails, attempt) ==
  IF attempt >= max_retries
  THEN [res |-> NoVec, calls |-> 0, tries |-> 0, waits |-> <<>>]
  ELSE IF (script.level = "await" /\ fails > 0) \/ (script.level = "mixed" /\ attempt = 0)
  THEN IF RetryGoesOn(script.cls, attempt)
       THEN LET rest == retry_loop(chunk, script,
                                   IF script.level = "await" THEN fails - 1 ELSE fails,
                                   attempt + 1) IN
            [res |-> rest.res, calls |-> rest.calls, tries |-> rest.tries + 1,
             waits |-> RetryDelay(script.cls, attempt) \o rest.waits]
       ELSE [res |-> NoVec, calls |-> 0, tries |-> 1, waits |-> <<>>]
  ELSE LET r == embed_text(chunk, script.cls,
                           IF script.level = "await" THEN 0 ELSE fails, 0)
       IN [res |-> normalize_embedding(r.raw), calls |-> r.calls,
           tries |-> r.calls, waits |-> <<>>]

\* embeddings.py:94-139  a value that is not a string makes line 96-97 raise
embed_single_chunk_async(chunk, script) ==
  IF chunk.kind = "bad"
  THEN [res |-> Raised, calls |-> 0, tries |-> 0, waits |-> <<>>]
  ELSE IF chunk.kind = "short"
  THEN [res |-> NoVec, calls |-> 0, tries |-> 0, waits |-> <<>>]
  ELSE retry_loop(chunk, script, script.nfail, 0)

\* mutant: every text that is left goes into one batch
EmbedBatchAllLeft(ts, i) == SubSeq(ts, i + 1, Len(ts))

\* embeddings.py:48  chunks[i:i + SMART_BATCH_SIZE]
EmbedBatch(ts, i) == SubSeq(ts, i + 1, Min2(i + SMART_BATCH_SIZE, Len(ts)))

\* a task of the batch that has not finished
Pending == [tag |-> "pending"]

\* mutant: a task that raised leaves no entry in the list
CollectSkipsRaised(results) ==
  SelectSeq([j \in 1..Len(results) |-> results[j]], LAMBDA r : r # Raised)

\* embeddings.py:63-72  one entry per task of the batch, None for a task
\* that raised or returned None
CollectResults(results) ==
  [j \in 1..Len(results) |-> IF results[j] = Raised THEN NoVec ELSE results[j]]

\* --------------------------------------------------------------- state
VARIABLES
  docs,        \* Document rows: set of [id, content_hash, total_chunks]
  chunkRows,   \* DocumentChunk rows: bag of [document_id, chunk_id]
  points,      \* Qdrant points: bag of payload and vector
  orphans,     \* persistence tasks still running after their gather raised
  nextId,      \* source of fresh uuid4 values
  faults,      \* failures raised by the collaborators so far
  pc, op, ref, lookup, docId, result, cause, cleanupOk,
  full_text, page_count, yielded, extractErr,
  chunks, bi, vectors,
  jobs, embedded, failedJobs, doneBefore,
  embed_pc,       \* position of the embed_chunks_async call
  texts,          \* its argument
  batch_start,    \* i, the offset of the batch being embedded
  batch_results,  \* what the tasks of the batch have returned or raised
  embeddings,     \* the list the call builds and returns
  lastItem,       \* history of the item task that finished last
  upserts,        \* direct upsert_chunks calls made
  req_pc,         \* position of the run_query request that answers questions
  existing_doc_id,\* what its lookup returned
  questions,      \* request.questions
  q_pc,           \* position of the task of each question
  q_result,       \* what the task of each question returned
  answers,        \* the list run_query returns
  probe,          \* the last call of a function of the retrieval side
  expired,        \* per request: the tier budget (s) that ran out while it ingested
  coll,           \* the Qdrant collection: exists, dimension, points_count
  ens,            \* per caller of upsert_chunks_async: position and what it saw
  pace,           \* a batch-by-batch run of embed_chunks_async and its delays
  rot             \* the key rotation of GeminiClient and the requests sent

vars == <<docs, chunkRows, points, orphans, nextId, faults,
          pc, op, ref, lookup, docId, result, cause, cleanupOk,
          full_text, page_count, yielded, extractErr,
          chunks, bi, vectors,
          jobs, embedded, failedJobs, doneBefore,
          embed_pc, texts, batch_start, batch_results, embeddings, lastItem,
          upserts,
          req_pc, existing_doc_id, questions, q_pc, q_result, answers,
          probe, expired, coll, ens, pace, rot>>

storeVars == <<docs, chunkRows, points, orphans>>
extractVars == <<full_text, page_count, yielded, extractErr>>
batchVars == <<chunks, bi, vectors, jobs, embedded, failedJobs>>
callVars == <<op, ref, doneBefore>>
workerVars == <<pc, lookup, docId, result, cause, cleanupOk, extractVars,
                batchVars, callVars>>
embedVars == <<embed_pc, texts, batch_start, batch_results, embeddings, lastItem>>
answerVars == <<req_pc, existing_doc_id, questions, q_pc, q_result, answers>>
pureVars == <<probe>>
timeVars == <<expired>>
collVars == <<coll, ens>>
clientVars == <<pace, rot>>
restVars == <<answerVars, pureVars, timeVars, collVars, clientVars>>

\* the similarity store has not been set up yet
NoColl == [exists |-> FALSE, dimension |-> 0, points_count |-> 0, set |-> FALSE]

\* no function has been called yet
NoCall == [fn |-> "none"]

\* embed_chunks_async has not been called
NoRun == [pc |-> "idle", n |-> 0, i |-> 0, delays |-> <<>>]

\* no GeminiClient has been constructed: no keys, no key configured in the
\* genai module, no thread inside embed_text
NoRotation ==
  [keys |-> 0, next |-> 0, configured |-> 0, sent |-> <<>>,
   thr |-> [t \in Workers |-> [pc |-> "idle", key |-> 0, sel |-> 0, attempt |-> 0]]]

\* no item task has finished yet
NoItem == [idx |-> -1]

Init ==
  /\ docs = {[id |-> OldDocId, content_hash |-> HashOf(OldRef), total_chunks |-> 1]}
  /\ chunkRows = SetToBag({[document_id |-> OldDocId, chunk_id |-> 0]})
  /\ points = SetToBag({[document_id |-> OldDocId, chunk_index |-> 0, chunk_id |-> 0,
                         raw |-> FloatVec(VECTOR_DIM), vector |-> FloatVec(VECTOR_DIM)]})
  /\ orphans = {}
  /\ nextId = OldDocId + 1
  /\ faults = 0
  /\ pc = [w \in Workers |-> "idle"]
  /\ op = [w \in Workers |-> Null]
  /\ ref = [w \in Workers |-> NoRef]
  /\ lookup = [w \in Workers |-> NoId]
  /\ docId = [w \in Workers |-> NoId]
  /\ result = [w \in Workers |-> NoId]
  /\ cause = [w \in Workers |-> Null]
  /\ cleanupOk = [w \in Workers |-> FALSE]
  /\ full_text = [w \in Workers |-> <<>>]
  /\ page_count = [w \in Workers |-> 0]
  /\ yielded = [w \in Workers |-> <<>>]
  /\ extractErr = [w \in Workers |-> NoErr]
  /\ chunks = [w \in Workers |-> <<>>]
  /\ bi = [w \in Workers |-> 0]
  /\ vectors = [w \in Workers |-> <<>>]
  /\ jobs = [w \in Workers |-> <<>>]
  /\ embedded = [w \in Workers |-> {}]
  /\ failedJobs = [w \in Workers |-> {}]
  /\ doneBefore = [w \in Workers |-> {}]
  /\ embed_pc = "idle"
  /\ texts = <<>>
  /\ batch_start = 0
  /\ batch_results = <<>>
  /\ embeddings = <<>>
  /\ lastItem = NoItem
  /\ upserts = 0
  /\ req_pc = "idle"
  /\ existing_doc_id = NoId
  /\ questions = <<>>
  /\ q_pc = <<>>
  /\ q_result = <<>>
  /\ answers = <<>>
  /\ probe = NoCall
  /\ expired = [w \in Workers |-> 0]
  /\ coll = NoColl
  /\ ens = [c \in Workers |-> "idle"]
  /\ pace = NoRun
  /\ rot = NoRotation


\* ------------------------------------------------ relational store (models_db.py)
RECURSIVE BagOfSeq(_)
BagOfSeq(seq) == IF seq = <<>> THEN EmptyBag ELSE SetToBag({Head(seq)}) (+) BagOfSeq(Tail(seq))

\* mutant: content_hash without the unique constraint
NoUniqueConstraint(rows, content_hash) == FALSE

\* models_db.py:20  content_hash is declared unique
UniqueViolation(rows, content_hash) ==
  \E d \in rows : d.content_hash = content_hash

\* models_db.py:35  document_id is a foreign key to documents.id
ForeignKeyOk(rows, document_id) ==
  \E d \in rows : d.id = document_id

\* vector_store.py:237-254  one row per item whose vector normalizes
RECURSIVE DbRows(_, _, _, _)
DbRows(document_id, start_idx, vecs, j) ==
  IF j > Len(vecs) THEN <<>>
  ELSE (IF normalize_vector(vecs[j]) = NoVec THEN <<>>
        ELSE <<[document_id |-> document_id, chunk_id |-> start_idx + j - 1]>>)
       \o DbRows(document_id, start_idx, vecs, j + 1)

\* vector_store.py:259-260 with the foreign key of models_db.py:35: the rows
\* are committed when the Document exists, the commit fails otherwise
CommitChunks(docRows, rowBag, newRows) ==
  IF newRows = <<>> THEN rowBag
  ELSE IF ForeignKeyOk(docRows, newRows[1].document_id)
       THEN rowBag (+) BagOfSeq(newRows)
  ELSE rowBag

\* vector_store.py:281-307  one point per item whose vector normalizes to
\* VECTOR_DIM elements; chunk_index is the position in the batch
RECURSIVE PointsOf(_, _, _, _)
PointsOf(document_id, start_idx, vecs, j) ==
  IF j > Len(vecs) THEN <<>>
  ELSE LET nv == normalize_vector(vecs[j]) IN
       (IF nv = NoVec THEN <<>>
        ELSE IF VecLen(nv) # VECTOR_DIM THEN <<>>
        ELSE <<[document_id |-> document_id, chunk_index |-> j - 1,
                chunk_id |-> start_idx + j - 1, raw |-> vecs[j], vector |-> nv]>>)
       \o PointsOf(document_id, start_idx, vecs, j + 1)

\* mutant: the delete is not filtered by document id
CleanupChunksUnfiltered(rowBag, document_id) == EmptyBag

\* document_service.py:380  delete the chunks of the document
CleanupChunks(rowBag, document_id) ==
  [r \in {x \in DOMAIN rowBag : x.document_id # document_id} |-> rowBag[r]]

\* mutant: the cleanup leaves the Document row in place
CleanupDocsKeepsRow(docRows, document_id) == docRows

\* document_service.py:382  delete the Document row
CleanupDocs(docRows, document_id) == {d \in docRows : d.id # document_id}

\* mutant: the lookup does not filter on content_hash and takes the first row
LookupAnyDocument(docRows, content_hash, dbError) ==
  IF dbError \/ docRows = {} THEN NoId
  ELSE (CHOOSE d \in docRows : \A e \in docRows : d.id <= e.id).id

\* document_service.py:86-96, 98-100
LookupResult(docRows, content_hash, dbError) ==
  IF dbError THEN NoId
  ELSE IF \E d \in docRows : d.content_hash = content_hash
       THEN (CHOOSE d \in docRows : d.content_hash = content_hash).id
       ELSE NoId

\* mutant: only xlarge documents skip a failed batch
OnlyXlargeContinues(type) == type \in {"xlarge"}

\* document_service.py:304  tiers whose failed batch is skipped
ContinuesAfterBatchFailure(type) == type \in {"large", "xlarge"}

\* mutant: the slice stops one chunk early
BatchSliceShort(chunkSeq, i, batch_size) ==
  SubSeq(chunkSeq, i + 1, Min2(i + batch_size - 1, Len(chunkSeq)))

\* document_service.py:290-291  chunks[i:i + batch_size]
BatchSlice(chunkSeq, i, batch_size) ==
  SubSeq(chunkSeq, i + 1, Min2(i + batch_size, Len(chunkSeq)))

\* document_service.py:249-265  the loop over the units the extractor yields:
\* each unit is added to the text and counted, then an xlarge document
\* leaves the loop if page_count exceeds 1000.  stops: the iterations at
\* which the test of line 263 holds; the loop ends at the first of them
ExtractLoop(units, type, text, count) ==
  LET stops == {j \in 1..Len(units) : type = "xlarge" /\ count + j > 1000}
      taken == IF stops = {} THEN Len(units)
               ELSE CHOOSE j \in stops : \A m \in stops : j <= m
  IN [full_text |-> text \o SubSeq(units, 1, taken), page_count |-> count + taken,
      broke |-> stops # {}]

\* mutant: the unit being accumulated when the extractor raised is lost
TextAfterErrorDropsLast(text) == SubSeq(text, 1, Len(text) - 1)

\* document_service.py:267-270  the text kept when the extractor raised
\* after at least one unit
TextAfterError(text) == text

\* a collaborator either works (f = FALSE) or raises (f = TRUE)
Fault(f) ==
  /\ f => faults < MaxFaults
  /\ faults' = IF f THEN faults + 1 ELSE faults

\* ------------------------------------------------------------- requests
\* mutant: the error of the lookup is not caught and ends the request
check_document_exists_reraises(w) ==
  /\ pc[w] = "idle"
  /\ \E r \in DocRefs, o \in {"run_query", "ingestOrReuse"}, dbError \in BOOLEAN :
       LET id == LookupResult(docs, HashOf(r), dbError) IN
       /\ \A v \in Workers : ref[v] # NoRef => r = ref[v]
       /\ Fault(dbError)
       /\ ref' = [ref EXCEPT ![w] = r]
       /\ op' = [op EXCEPT ![w] = o]
       /\ lookup' = [lookup EXCEPT ![w] = id]
       /\ IF dbError
            THEN /\ pc' = [pc EXCEPT ![w] = "failed"]
                 /\ UNCHANGED result
            ELSE IF o = "run_query"
            THEN /\ pc' = [pc EXCEPT ![w] = IF id # NoId THEN "rag" ELSE "direct"]
                 /\ UNCHANGED result
            ELSE /\ pc' = [pc EXCEPT ![w] = IF id # NoId THEN "reused" ELSE "extract"]
                 /\ result' = [result EXCEPT ![w] = id]
  /\ doneBefore' = [doneBefore EXCEPT ![w] = {v \in Workers : pc[v] = "done"}]
  /\ UNCHANGED <<storeVars, nextId, docId, cause, cleanupOk, extractVars, batchVars>>
  /\ UNCHANGED <<embedVars, upserts, restVars>>

\* main.py:56-61: a request arrives with the triple of its document (the
\* requests of one behaviour refer to the same document) and
\* document_service.py:74-105 looks the fingerprint up.  run_query answers
\* a miss through the direct path (main.py:81-89); ingestOrReuse is the
\* composition of main.py:71-74: process_new_document on a miss.
check_document_exists(w) ==
  /\ pc[w] = "idle"
  /\ \E r \in DocRefs, o \in {"run_query", "ingestOrReuse"}, dbError \in BOOLEAN :
       LET id == LookupResult(docs, HashOf(r), dbError) IN
       /\ \A v \in Workers : ref[v] # NoRef => r = ref[v]
       /\ Fault(dbError)
       /\ ref' = [ref EXCEPT ![w] = r]
       /\ op' = [op EXCEPT ![w] = o]
       /\ lookup' = [lookup EXCEPT ![w] = id]
       /\ IF o = "run_query"
            THEN /\ pc' = [pc EXCEPT ![w] = IF id # NoId THEN "rag" ELSE "direct"]
                 /\ UNCHANGED result
            ELSE /\ pc' = [pc EXCEPT ![w] = IF id # NoId THEN "reused" ELSE "extract"]
                 /\ result' = [result EXCEPT ![w] = id]
  /\ doneBefore' = [doneBefore EXCEPT ![w] = {v \in Workers : pc[v] = "done"}]
  /\ UNCHANGED <<storeVars, nextId, docId, cause, cleanupOk, extractVars, batchVars>>
  /\ UNCHANGED <<embedVars, upserts, restVars>>

\* main.py:62-69, 91-92  questions answered from the stored document
AnswerRag(w) ==
  /\ pc[w] = "rag"
  /\ pc' = [pc EXCEPT ![w] = "answered"]
  /\ result' = [result EXCEPT ![w] = lookup[w]]
  /\ UNCHANGED <<faults, storeVars, nextId, lookup, docId, cause, cleanupOk,
                 extractVars, batchVars, callVars>>
  /\ UNCHANGED <<embedVars, upserts, restVars>>

\* main.py:81-92  questions answered by the generation service alone
AnswerDirect(w) ==
  /\ pc[w] = "direct"
  /\ pc' = [pc EXCEPT ![w] = "answered"]
  /\ UNCHANGED <<faults, storeVars, nextId, lookup, docId, result, cause, cleanupOk,
                 extractVars, batchVars, callVars>>
  /\ UNCHANGED <<embedVars, upserts, restVars>>

\* ------------------------------------------------------------ ingestion
\* document_service.py:213-228, 245-275  a fresh id, the extraction of the
\* units the extractor yields (it may raise after them) and the segmentation
process_new_document(w) ==
  /\ pc[w] = "extract"
  /\ docId' = [docId EXCEPT ![w] = nextId]
  /\ nextId' = nextId + 1
  /\ \E units \in UnitSeqs, raises \in BOOLEAN :
       LET x == ExtractLoop(units, TierOf(ref[w]), <<>>, 0)
           raised == raises /\ ~x.broke
           text == IF raised THEN TextAfterError(x.full_text) ELSE x.full_text
           cs == chunk_pageText(text)
       IN
       /\ Fault(raised)
       /\ yielded' = [yielded EXCEPT ![w] = units]
       /\ page_count' = [page_count EXCEPT ![w] = x.page_count]
       /\ extractErr' = [extractErr EXCEPT ![w] = IF raised THEN Len(units) ELSE NoErr]
       /\ IF raised /\ ~(x.page_count > 0)
            THEN /\ full_text' = [full_text EXCEPT ![w] = x.full_text]
                 /\ cause' = [cause EXCEPT ![w] = "extraction"]
                 /\ pc' = [pc EXCEPT ![w] = "cleanup"]
                 /\ UNCHANGED chunks
            ELSE /\ full_text' = [full_text EXCEPT ![w] = text]
                 /\ chunks' = [chunks EXCEPT ![w] = cs]
                 /\ IF cs = <<>>
                      THEN /\ cause' = [cause EXCEPT ![w] = "segmentation"]
                           /\ pc' = [pc EXCEPT ![w] = "cleanup"]
                      ELSE /\ pc' = [pc EXCEPT ![w] = "store"]
                           /\ UNCHANGED cause
  /\ UNCHANGED <<storeVars, lookup, result, cleanupOk, bi, vectors,
                 jobs, embedded, failedJobs, callVars>>
  /\ UNCHANGED <<embedVars, upserts, restVars>>

\* mutant: the row is written before the chunks are counted
DocumentRowWithoutTotal(w) ==
  [id |-> docId[w], content_hash |-> HashOf(ref[w]), total_chunks |-> 0]

\* document_service.py:350-357  the Document row of the ingestion
DocumentRow(w) ==
  [id |-> docId[w], content_hash |-> HashOf(ref[w]), total_chunks |-> Len(chunks[w])]

\* document_service.py:287, 345-372  (the locals of the extraction are not
\* read again once the chunks exist)
StoreDocumentMetadata(w) ==
  /\ pc[w] = "store"
  /\ \E dbError \in BOOLEAN :
       /\ Fault(dbError)
       /\ IF dbError \/ UniqueViolation(docs, HashOf(ref[w]))
            THEN /\ pc' = [pc EXCEPT ![w] = "cleanup"]
                 /\ cause' = [cause EXCEPT ![w] = "metadata"]
                 /\ UNCHANGED docs
            ELSE /\ docs' = docs \cup {DocumentRow(w)}
                 /\ pc' = [pc EXCEPT ![w] = "batch"]
                 /\ UNCHANGED cause
  /\ full_text' = [full_text EXCEPT ![w] = <<>>]
  /\ page_count' = [page_count EXCEPT ![w] = 0]
  /\ yielded' = [yielded EXCEPT ![w] = <<>>]
  /\ extractErr' = [extractErr EXCEPT ![w] = NoErr]
  /\ UNCHANGED <<chunkRows, points, orphans, nextId, lookup, docId, result,
                 cleanupOk, batchVars, callVars>>
  /\ UNCHANGED <<embedVars, upserts, restVars>>

\* mutant: the loop goes round once more when the chunks are used up
AdvanceOneMore(w) ==
  LET nb == bi[w] + BatchOf(ref[w]) IN
  /\ bi' = [bi EXCEPT ![w] = nb]
  /\ vectors' = [vectors EXCEPT ![w] = <<>>]
  /\ IF nb > Len(chunks[w])
       THEN /\ pc' = [pc EXCEPT ![w] = "done"]
            /\ result' = [result EXCEPT ![w] = docId[w]]
       ELSE /\ pc' = [pc EXCEPT ![w] = "batch"]
            /\ UNCHANGED result

\* document_service.py:290, 298-299, 310-311, 237-238  on to the next batch,
\* or out of the loop and back to the caller with the id
Advance(w) ==
  LET nb == bi[w] + BatchOf(ref[w]) IN
  /\ bi' = [bi EXCEPT ![w] = nb]
  /\ vectors' = [vectors EXCEPT ![w] = <<>>]
  /\ IF nb >= Len(chunks[w])
       THEN /\ pc' = [pc EXCEPT ![w] = "done"]
            /\ result' = [result EXCEPT ![w] = docId[w]]
       ELSE /\ pc' = [pc EXCEPT ![w] = "batch"]
            /\ UNCHANGED result

\* document_service.py:301-308  the except branch of the batch loop
BatchFailed(w) ==
  /\ failedJobs' = [failedJobs EXCEPT ![w] = @ \cup {bi[w]}]
  /\ IF ContinuesAfterBatchFailure(TierOf(ref[w]))
       THEN /\ Advance(w)
            /\ UNCHANGED cause
       ELSE /\ pc' = [pc EXCEPT ![w] = "cleanup"]
            /\ cause' = [cause EXCEPT ![w] = "batch"]
            /\ vectors' = [vectors EXCEPT ![w] = <<>>]
            /\ UNCHANGED <<bi, result>>

\* document_service.py:290-296, 313-343 and vector_store.py:212-221: the
\* next BatchJob is formed, its texts are embedded, and the two persistence
\* tasks are created unless get_client / ensure_collection raises
StartBatch(w) ==
  /\ pc[w] = "batch"
  /\ LET batch_chunks == BatchSlice(chunks[w], bi[w], BatchOf(ref[w])) IN
       /\ jobs' = [jobs EXCEPT ![w] = Append(@, [start |-> bi[w], chunks |-> batch_chunks])]
       /\ embedded' = [embedded EXCEPT ![w] =
                         @ \cup {bi[w] + j - 1 : j \in 1..Len(batch_chunks)}]
       /\ \E pat \in EmbedPatterns, setupFails \in BOOLEAN :
            /\ Fault(setupFails)
            /\ IF setupFails
                 THEN BatchFailed(w)
                 ELSE /\ vectors' = [vectors EXCEPT ![w] =
                                       [j \in 1..Len(batch_chunks) |-> EmbedResult(pat, j - 1)]]
                      /\ pc' = [pc EXCEPT ![w] = "gather"]
                      /\ UNCHANGED <<bi, result, cause, failedJobs>>
  /\ UNCHANGED <<storeVars, nextId, lookup, docId, cleanupOk, extractVars,
                 chunks, callVars>>
  /\ UNCHANGED <<embedVars, upserts, restVars>>

\* mutant: a batch with an item that has no vector is failed as a whole
PersistBatchAbortsOnNull(w) ==
  /\ pc[w] = "gather"
  /\ IF \E j \in 1..Len(vectors[w]) : normalize_vector(vectors[w][j]) = NoVec
       THEN /\ BatchFailed(w)
            /\ UNCHANGED <<chunkRows, points>>
       ELSE /\ chunkRows' = CommitChunks(docs, chunkRows, DbRows(docId[w], bi[w], vectors[w], 1))
            /\ points' = points (+) BagOfSeq(PointsOf(docId[w], bi[w], vectors[w], 1))
            /\ Advance(w)
            /\ UNCHANGED <<cause, failedJobs>>
  /\ UNCHANGED <<docs, orphans, nextId, faults, lookup, docId,
                 cleanupOk, extractVars, chunks, jobs, embedded, callVars>>
  /\ UNCHANGED <<embedVars, upserts, restVars>>

\* vector_store.py:220-224, 229-331  both persistence tasks finish: the
\* relational write commits, the points are upserted, the gather returns
PersistBatch(w) ==
  /\ pc[w] = "gather"
  /\ chunkRows' = CommitChunks(docs, chunkRows, DbRows(docId[w], bi[w], vectors[w], 1))
  /\ points' = points (+) BagOfSeq(PointsOf(docId[w], bi[w], vectors[w], 1))
  /\ Advance(w)
  /\ UNCHANGED <<docs, orphans, nextId, faults, lookup, docId, cause,
                 cleanupOk, extractVars, chunks, jobs, embedded, failedJobs, callVars>>
  /\ UNCHANGED <<embedVars, upserts, restVars>>

\* vector_store.py:265-268, 223-227  the relational write raises: gather
\* re-raises, and the vector write has finished or is still running
DbTaskFail(w) ==
  /\ pc[w] = "gather"
  /\ Fault(TRUE)
  /\ \E vecDone \in BOOLEAN :
       IF vecDone
       THEN /\ points' = points (+) BagOfSeq(PointsOf(docId[w], bi[w], vectors[w], 1))
            /\ UNCHANGED orphans
       ELSE /\ orphans' = orphans \cup {[kind |-> "vec", document_id |-> docId[w],
                                         start |-> bi[w], vectors |-> vectors[w]]}
            /\ UNCHANGED points
  /\ BatchFailed(w)
  /\ UNCHANGED <<docs, chunkRows, nextId, lookup, docId,
                 cleanupOk, extractVars, chunks, jobs, embedded, callVars>>
  /\ UNCHANGED <<embedVars, upserts, restVars>>

\* vector_store.py:317-329, 223-227  client.upsert raises: gather re-raises,
\* and the relational write has finished or is still running
VecTaskFail(w) ==
  /\ pc[w] = "gather"
  /\ Fault(TRUE)
  /\ PointsOf(docId[w], bi[w], vectors[w], 1) # <<>>
  /\ \E dbDone \in BOOLEAN :
       IF dbDone
       THEN /\ chunkRows' = CommitChunks(docs, chunkRows,
                                         DbRows(docId[w], bi[w], vectors[w], 1))
            /\ UNCHANGED orphans
       ELSE /\ orphans' = orphans \cup {[kind |-> "db", document_id |-> docId[w],
                                         start |-> bi[w], vectors |-> vectors[w]]}
            /\ UNCHANGED chunkRows
  /\ BatchFailed(w)
  /\ UNCHANGED <<docs, points, nextId, lookup, docId,
                 cleanupOk, extractVars, chunks, jobs, embedded, callVars>>
  /\ UNCHANGED <<embedVars, upserts, restVars>>

\* a write left running by a failed gather finishes: vector_store.py:259-260
\* (commit, subject to the foreign key) or 322 (upsert)
OrphanCompletes(o) ==
  /\ o \in orphans
  /\ orphans' = orphans \ {o}
  /\ IF o.kind = "db"
       THEN /\ chunkRows' = CommitChunks(docs, chunkRows,
                                         DbRows(o.document_id, o.start, o.vectors, 1))
            /\ UNCHANGED points
       ELSE /\ points' = points (+) BagOfSeq(PointsOf(o.document_id, o.start, o.vectors, 1))
            /\ UNCHANGED chunkRows
  /\ UNCHANGED <<faults, docs, nextId, pc, lookup, docId, result, cause, cleanupOk,
                 extractVars, batchVars, callVars>>
  /\ UNCHANGED <<embedVars, upserts, restVars>>

\* a write left running by a failed gather raises: vector_store.py:265-268, 326-329
OrphanFails(o) ==
  /\ o \in orphans
  /\ orphans' = orphans \ {o}
  /\ UNCHANGED <<faults, docs, chunkRows, points, nextId, pc, lookup, docId, result,
                 cause, cleanupOk, extractVars, batchVars, callVars>>
  /\ UNCHANGED <<embedVars, upserts, restVars>>

\* document_service.py:240-243, 374-392
cleanup_failed_processing(w) ==
  /\ pc[w] = "cleanup"
  /\ \E dbError \in BOOLEAN :
       /\ Fault(dbError)
       /\ IF dbError
            THEN /\ cleanupOk' = [cleanupOk EXCEPT ![w] = FALSE]
                 /\ UNCHANGED <<docs, chunkRows>>
            ELSE /\ cleanupOk' = [cleanupOk EXCEPT ![w] = TRUE]
                 /\ chunkRows' = CleanupChunks(chunkRows, docId[w])
                 /\ docs' = CleanupDocs(docs, docId[w])
  /\ pc' = [pc EXCEPT ![w] = "failed"]
  /\ UNCHANGED <<points, orphans, nextId, lookup, docId, result, cause,
                 extractVars, batchVars, callVars>>
  /\ UNCHANGED <<embedVars, upserts, restVars>>

Next ==
  \/ \E w \in Workers : check_document_exists(w)
  \/ \E w \in Workers : AnswerRag(w)
  \/ \E w \in Workers : AnswerDirect(w)
  \/ \E w \in Workers : process_new_document(w)
  \/ \E w \in Workers : StoreDocumentMetadata(w)
  \/ \E w \in Workers : StartBatch(w)
  \/ \E w \in Workers : PersistBatch(w)
  \/ \E w \in Workers : DbTaskFail(w)
  \/ \E w \in Workers : VecTaskFail(w)
  \/ \E w \in Workers : cleanup_failed_processing(w)
  \/ \E o \in orphans : OrphanCompletes(o)
  \/ \E o \in orphans : OrphanFails(o)

Spec == Init /\ [][Next]_vars

\* ------------------------------------------------ ingestion, scheduled
\* the steps of one ingestion that need nothing but its collaborators to
\* return or raise
IngestStep(w) ==
  \/ process_new_document(w)
  \/ StoreDocumentMetadata(w)
  \/ StartBatch(w)
  \/ PersistBatch(w)
  \/ cleanup_failed_processing(w)

\* one request on its own, with the failures and the late writes of Next
NextSolo ==
  \/ check_document_exists("w1")
  \/ IngestStep("w1")
  \/ DbTaskFail("w1")
  \/ VecTaskFail("w1")
  \/ \E o \in orphans : OrphanCompletes(o)
  \/ \E o \in orphans : OrphanFails(o)

\* the event loop resumes every coroutine whose awaited call has returned or
\* raised (document_service.py:222, 233, 242)
SpecFair == Init /\ [][NextSolo]_vars /\ WF_vars(IngestStep("w1"))

\* ------------------------------------------- embedding batcher (embeddings.py)
ingestVars == <<storeVars, nextId, faults, workerVars>>

\* embeddings.py:55  one task per text of the batch
TasksOf(ts, i) == [j \in 1..Len(EmbedBatch(ts, i)) |-> Pending]

\* embeddings.py:33-55  the call: an empty list returns at once, otherwise
\* the tasks of the first batch are created
embed_chunks_async(chunks_arg) ==
  /\ embed_pc = "idle"
  /\ texts' = chunks_arg
  /\ embeddings' = <<>>
  /\ batch_start' = 0
  /\ IF chunks_arg = <<>>
       THEN /\ embed_pc' = "returned"
            /\ batch_results' = <<>>
       ELSE /\ embed_pc' = "gather"
            /\ batch_results' = TasksOf(chunks_arg, 0)
  /\ UNCHANGED <<lastItem, ingestVars, upserts, restVars>>

\* embeddings.py:55-56, 94-139  a task of the batch runs to its end, against
\* what the environment does to the requests of its item
ItemTask(j) ==
  /\ embed_pc = "gather"
  /\ j \in 1..Len(batch_results)
  /\ batch_results[j] = Pending
  /\ \E script \in Scripts :
       LET chunk == EmbedBatch(texts, batch_start)[j]
           r == embed_single_chunk_async(chunk, script)
       IN
       /\ batch_results' = [batch_results EXCEPT ![j] = r.res]
       /\ lastItem' = [idx |-> batch_start + j - 1, kind |-> chunk.kind,
                       script |-> script, res |-> r.res, calls |-> r.calls,
                       tries |-> r.tries, waits |-> r.waits]
  /\ UNCHANGED <<embed_pc, texts, batch_start, embeddings, ingestVars, upserts, restVars>>

\* embeddings.py:56-77, 87-92  the gather returns once every task is over;
\* its results are appended, and the call returns after the last batch
CollectBatch ==
  /\ embed_pc = "gather"
  /\ \A j \in 1..Len(batch_results) : batch_results[j] # Pending
  /\ embeddings' = embeddings \o CollectResults(batch_results)
  /\ batch_results' = <<>>
  /\ embed_pc' = IF batch_start + SMART_BATCH_SIZE < Len(texts)
                 THEN "sleep" ELSE "returned"
  /\ UNCHANGED <<texts, batch_start, lastItem, ingestVars, upserts, restVars>>

\* embeddings.py:77-85, 47-55  the pacing delay is over: the next batch
InterBatchDelay ==
  /\ embed_pc = "sleep"
  /\ batch_start' = batch_start + SMART_BATCH_SIZE
  /\ batch_results' = TasksOf(texts, batch_start + SMART_BATCH_SIZE)
  /\ embed_pc' = "gather"
  /\ UNCHANGED <<texts, embeddings, lastItem, ingestVars, upserts, restVars>>

NextEmbed ==
  \/ \E chunks_arg \in TextSeqs : embed_chunks_async(chunks_arg)
  \/ \E j \in 1..SMART_BATCH_SIZE : ItemTask(j)
  \/ CollectBatch
  \/ InterBatchDelay

SpecEmbed == Init /\ [][NextEmbed]_vars

\* --------------------------------- direct writes (vector_store.py:402-404)
\* most vectors in one upsert_chunks call, and most such calls
MaxVecs == 2
MaxUpserts == 2

\* raw vectors a caller of upsert_chunks may pass
RawVectors ==
  { NoVec, FlatList(<<>>),
    FloatVec(VECTOR_DIM), FloatVec(VECTOR_DIM - 1), FloatVec(VECTOR_DIM + 1),
    FloatVec(VECTOR_DIM \div 2),
    FlatList(<<NumRun(VECTOR_DIM), JunkRun(1)>>),
    FlatList(<<JunkRun(1), NumRun(VECTOR_DIM - 1)>>),
    FlatList(<<JunkRun(2)>>),
    NestedList(<<NumRun(VECTOR_DIM)>>, 0),
    NestedList(<<NumRun(VECTOR_DIM)>>, 1),
    NestedList(<<>>, 0),
    DictOf("embedding", FloatVec(VECTOR_DIM)),
    DictOf("values", FloatVec(VECTOR_DIM)) }

RawVectorSeqs == UNION {[1..n -> RawVectors] : n \in 1..MaxVecs}

\* vector_store.py:212-227, 402-404  upsert_chunks for a stored document:
\* the relational write and the vector write both run; either may raise
upsert_chunks(document_id, vecs) ==
  /\ upserts < MaxUpserts
  /\ upserts' = upserts + 1
  /\ \E dbFails \in BOOLEAN, vecFails \in BOOLEAN :
       /\ Fault(dbFails \/ vecFails)
       /\ vecFails => PointsOf(document_id, 0, vecs, 1) # <<>>
       /\ chunkRows' = IF dbFails THEN chunkRows
                       ELSE CommitChunks(docs, chunkRows, DbRows(document_id, 0, vecs, 1))
       /\ points' = IF vecFails THEN points
                    ELSE points (+) BagOfSeq(PointsOf(document_id, 0, vecs, 1))
  /\ UNCHANGED <<docs, orphans, nextId, workerVars, embedVars, restVars>>

NextVec ==
  \E d \in docs, vecs \in RawVectorSeqs : upsert_chunks(d.id, vecs)

SpecVec == Init /\ [][NextVec]_vars


\* ----------------------------------------- answering questions (main.py)
\* most questions in one request
MaxQuestions == 2

\* a question: a string of at least 5 characters or a shorter one, about
\* one of the subjects generate_fallback_direct_response tells apart
QuestionKinds ==
  { [kind |-> "ok", topic |-> "other"], [kind |-> "short", topic |-> "other"],
    [kind |-> "ok", topic |-> "brake"] }
QuestionSeqs ==
  UNION {{[i \in 1..n |-> [id |-> i, kind |-> k[i].kind, topic |-> k[i].topic]] :
            k \in [1..n -> QuestionKinds]} : n \in 0..MaxQuestions}

\* what an answer is: the question whose task produced it, the message,
\* and the internal error text the message carries ("" when none)
Answer(q, msg, detail) == [q |-> q.id, msg |-> msg, detail |-> detail]

\* how the generation service treats the attempts of one call: the first
\* nfail attempts fail, by an exception of the service ("api") or by a reply
\* of at most 5 characters ("short"); a reply may have at most 10 characters
GenScripts ==
  {[nfail |-> n, err |-> e, brief |-> b] :
     n \in 0..max_retries, e \in {"api", "short"}, b \in BOOLEAN}

\* gemini.py:53 and the message of an exception of the service
ErrText(err) ==
  IF err = "short" THEN "Generated response too short or empty"
  ELSE "403 API key not valid"

\* gemini.py:28-58  the attempts from the given one on: the reply, or after
\* the last failed attempt the apology that ends with str(e)
RECURSIVE generate_response(_, _, _)
generate_response(q, script, attempt) ==
  IF attempt >= max_retries THEN Answer(q, "none", "")
  ELSE IF script.nfail > attempt
  THEN IF attempt = max_retries - 1
       THEN Answer(q, "could_not_generate", ErrText(script.err))
       ELSE generate_response(q, script, attempt + 1)
  ELSE Answer(q, IF script.brief THEN "generated_brief" ELSE "generated", "")

\* response_builder.py:14-60
build_final_response_async(q, top_chunks, script, raises) ==
  IF top_chunks = <<>> THEN Answer(q, "no_relevant_information", "")
  ELSE IF raises THEN Answer(q, "generation_error", "")
  ELSE LET response == generate_response(q, script, 0) IN
       IF response.msg \in {"none", "generated_brief"}
       THEN Answer(q, "incomplete_answer", "")
       ELSE response

\* main.py:184-205
generate_fallback_direct_response(q) ==
  Answer(q, IF q.topic \in {"spark plug", "brake", "tyre", "oil", "javascript"}
            THEN "temporary_" \o q.topic ELSE "temporary_maintenance", "")

\* main.py:154-182
process_question_direct_gemini_async(q, script, raises) ==
  IF raises THEN generate_fallback_direct_response(q)
  ELSE LET response == generate_response(q, script, 0) IN
       IF response.msg = "none" THEN generate_fallback_direct_response(q)
       ELSE response

\* payloads search_chunks_async may return (vector_store.py:371, 375): each
\* names the field that holds its text, "" when it has none of the three
Payload(field) == [field |-> field]
SearchResults ==
  { <<>>, <<Payload("chunk")>>, <<Payload("")>>, <<Payload(""), Payload("text")>>,
    <<Payload("content"), Payload("chunk")>> }

\* main.py:121-139
top_texts(top_chunks) == SelectSeq(top_chunks, LAMBDA c : c.field # "")

\* main.py:103-142  up to the call of build_final_response_async: the answer
\* when the task ends here, a "none" answer when it goes on
rag_retrieve(q, query_vector, searchRaises, top_chunks) ==
  IF query_vector \in {NoVec, Raised} THEN Answer(q, "embedding_error", "")
  ELSE IF searchRaises THEN Answer(q, "rag_error", "")
  ELSE IF top_chunks = <<>> THEN Answer(q, "no_relevant_chunks", "")
  ELSE IF top_texts(top_chunks) = <<>> THEN Answer(q, "no_text_in_chunks", "")
  ELSE Answer(q, "none", "")

\* mutant: the results come back in reverse task order
GatherReversed(results) ==
  [i \in 1..Len(results) |-> results[Len(results) + 1 - i]]

\* main.py:68-69, 88-89  asyncio.gather returns the results in task order
GatherResults(results) == [i \in 1..Len(results) |-> results[i]]

\* what answering a request leaves alone
answerFrame == <<ingestVars, embedVars, upserts, pureVars, timeVars, collVars, clientVars>>

\* main.py:53-89  the lookup hit or missed, one task per question
run_query(qs, doc_id) ==
  /\ req_pc = "idle"
  /\ req_pc' = "tasks"
  /\ existing_doc_id' = doc_id
  /\ questions' = qs
  /\ q_pc' = [i \in 1..Len(qs) |-> IF doc_id # NoId THEN "embed" ELSE "direct"]
  /\ q_result' = [i \in 1..Len(qs) |-> Answer(qs[i], "none", "")]
  /\ UNCHANGED <<answers, answerFrame>>

\* main.py:98-142, 150-152  the question is embedded and the store searched
RagRetrieve(i) ==
  /\ req_pc = "tasks" /\ i \in 1..Len(questions) /\ q_pc[i] = "embed"
  /\ \E script \in Scripts, searchRaises \in BOOLEAN, top_chunks \in SearchResults :
       LET q == questions[i]
           vec == embed_single_chunk_async([kind |-> q.kind, id |-> q.id], script).res
           a == rag_retrieve(q, vec, searchRaises, top_chunks)
       IN
       /\ q_result' = [q_result EXCEPT ![i] = a]
       /\ q_pc' = [q_pc EXCEPT ![i] = IF a.msg = "none" THEN "build" ELSE "done"]
  /\ UNCHANGED <<req_pc, existing_doc_id, questions, answers,
                 answerFrame>>

\* main.py:146-152  the answer is generated from the texts found
RagBuild(i) ==
  /\ req_pc = "tasks" /\ i \in 1..Len(questions) /\ q_pc[i] = "build"
  /\ \E script \in GenScripts, raises \in BOOLEAN :
       q_result' = [q_result EXCEPT ![i] =
                      build_final_response_async(questions[i], <<Payload("chunk")>>,
                                                 script, raises)]
  /\ q_pc' = [q_pc EXCEPT ![i] = "done"]
  /\ UNCHANGED <<req_pc, existing_doc_id, questions, answers,
                 answerFrame>>

\* main.py:154-182  the task of a question of a document not stored
DirectAnswer(i) ==
  /\ req_pc = "tasks" /\ i \in 1..Len(questions) /\ q_pc[i] = "direct"
  /\ \E script \in GenScripts, raises \in BOOLEAN :
       q_result' = [q_result EXCEPT ![i] =
                      process_question_direct_gemini_async(questions[i], script, raises)]
  /\ q_pc' = [q_pc EXCEPT ![i] = "done"]
  /\ UNCHANGED <<req_pc, existing_doc_id, questions, answers,
                 answerFrame>>

\* main.py:69, 89, 91-92  every task is over: the answers are returned
ReturnAnswers ==
  /\ req_pc = "tasks"
  /\ \A i \in 1..Len(questions) : q_pc[i] = "done"
  /\ answers' = GatherResults(q_result)
  /\ req_pc' = "returned"
  /\ UNCHANGED <<existing_doc_id, questions, q_pc, q_result,
                 answerFrame>>

NextAnswer ==
  \/ \E qs \in QuestionSeqs, doc_id \in {NoId, OldDocId} : run_query(qs, doc_id)
  \/ \E i \in 1..MaxQuestions : RagRetrieve(i)
  \/ \E i \in 1..MaxQuestions : RagBuild(i)
  \/ \E i \in 1..MaxQuestions : DirectAnswer(i)
  \/ ReturnAnswers

SpecAnswer == Init /\ [][NextAnswer]_vars

\* ------------------------------------------ retrieval side (retriever.py)
\* what calling one of these functions leaves alone
pureFrame == <<ingestVars, embedVars, upserts, answerVars, timeVars, collVars, clientVars>>

\* most candidates handed to rerank_chunks_by_intent
MaxCandidates == 3

\* A candidate payload is described by what its "chunk" text contains: how
\* many of the intent's key entities, whether the intent's main topic, and
\* which of the keywords of retriever.py:73-76 ("period", "defined", none).
CandidateTexts ==
  {[ents |-> e, topic |-> t, kw |-> k] :
     e \in 0..2, t \in BOOLEAN, k \in {"", "period", "defined"}}
CandidateSeqs == UNION {[1..n -> CandidateTexts] : n \in 0..MaxCandidates}

\* the question types an intent may carry
IntentTypes == {"what", "when", "general"}

\* retriever.py:58-78
relevance_score(chunk, question_type) ==
  2 * chunk.ents
  + (IF chunk.topic THEN 3 ELSE 0)
  + (IF question_type = "when" /\ chunk.kw = "period" THEN 2
     ELSE IF question_type = "what" /\ chunk.kw = "defined" THEN 2 ELSE 0)

\* list.index: the first position holding an equal element (two payloads
\* with the same content are equal dicts)
IndexOf(seq, x) ==
  CHOOSE j \in 1..Len(seq) : seq[j] = x /\ \A k \in 1..(j - 1) : seq[k] # x

\* retriever.py:82  key=lambda x: (-x["relevance_score"], cands.index(x))
SortKey(cands, question_type, p) ==
  <<0 - relevance_score(cands[p], question_type), IndexOf(cands, cands[p])>>

\* tuple comparison of two keys
KeyLess(a, b) == a[1] < b[1] \/ (a[1] = b[1] /\ a[2] < b[2])

\* list.sort is stable: position p goes behind every element already placed
\* whose key is not greater than its own
RECURSIVE InsertByKey(_, _, _, _)
InsertByKey(placed, p, cands, question_type) ==
  IF placed = <<>> THEN <<p>>
  ELSE IF KeyLess(SortKey(cands, question_type, p),
                  SortKey(cands, question_type, Head(placed)))
       THEN <<p>> \o placed
       ELSE <<Head(placed)>> \o InsertByKey(Tail(placed), p, cands, question_type)

RECURSIVE SortPositions(_, _, _)
SortPositions(cands, question_type, n) ==
  IF n = 0 THEN <<>>
  ELSE InsertByKey(SortPositions(cands, question_type, n - 1), n, cands, question_type)

\* retriever.py:48-84  the positions of the candidates in the order returned
rerank_chunks_by_intent(cands, question_type) ==
  SortPositions(cands, question_type, Len(cands))

Rerank(cands, question_type) ==
  /\ probe = NoCall
  /\ probe' = [fn |-> "rerank", chunks |-> cands, question_type |-> question_type,
               order |-> rerank_chunks_by_intent(cands, question_type)]
  /\ UNCHANGED pureFrame

\* ----------------------------------------------- fingerprint (utils.py:8-11)
\* triples the fingerprint is taken of: names and preview words may hold the
\* "_" the digest input is joined with
FingerprintTriples ==
  [file_name : {"a", "a_1"}, file_size : {1, 2}, first_words : {"w", "2_w"}]

\* utils.py:10  combined = f"{file_name}_{file_size}_{first_words}"
DigestInput(r) == HashOf(r)[2]

\* two calls of hash_pdf_metadata, each on its own triple
Fingerprint(a, b) ==
  /\ probe = NoCall
  /\ probe' = [fn |-> "hash", a |-> a, b |-> b,
               ha |-> HashOf(a), ha2 |-> HashOf(a), hb |-> HashOf(b)]
  /\ UNCHANGED pureFrame

\* ------------------------- document preview (document_service.py:107-206)
\* remote documents: the name in the URL, the length of the URL, the
\* content-length the server reports and the first 20 words of the cleaned
\* first page (words_len is the length of that string)
RemoteDocs ==
  { [url |-> "https://h/a.pdf", url_len |-> 15, file_name |-> "a.pdf",
     content_length |-> 5 * MB, words |-> "policy schedule and terms", words_len |-> 25],
    [url |-> "https://h/c.pdf", url_len |-> 15, file_name |-> "c.pdf",
     content_length |-> 100 * MB, words |-> "policy", words_len |-> 6] }

\* what the network does during one submission:
\*   head    "ok"       HEAD answers with a content-length
\*           "range"    no content-length, the range request tells the total
\*           "norange"  no content-length, no usable content-range
\*           "fail"     the HEAD request raises (timeout, 5xx)
\*   preview "ok"       the first page is read
\*           "empty"    the generator yields no page
\*           "fail"     the extraction raises
PreviewScripts ==
  [head : {"ok", "range", "norange", "fail"}, preview : {"ok", "empty", "fail"}]

\* document_service.py:139-164  (raises on "fail": see get_document_preview)
get_file_size_via_head(doc, script) ==
  IF script.head \in {"ok", "range"} THEN doc.content_length ELSE 25 * MB

\* document_service.py:175-191
get_preview_streaming(doc, script) ==
  IF script.preview = "ok" /\ doc.words_len > 10 THEN doc.words
  ELSE "no_preview_large_file_" \o ToString(doc.url_len)

\* document_service.py:193-206
get_preview_standard(doc, script) ==
  IF script.preview = "ok" /\ doc.words_len > 0 THEN doc.words
  ELSE "no_preview_" \o ToString(doc.url_len)

\* document_service.py:166-173
get_document_preview_robust(doc, config, script) ==
  IF config.type \in {"large", "xlarge"} THEN get_preview_streaming(doc, script)
  ELSE get_preview_standard(doc, script)

\* document_service.py:107-137  the triple one submission derives
get_document_preview(doc, script) ==
  LET file_size == IF script.head = "fail" THEN 25 * MB
                   ELSE get_file_size_via_head(doc, script)
      config == get_config_for_size(file_size)
      url_hash == "md5(" \o doc.url \o ")[:8]"
      fallback_preview == "large_file_" \o ToString(file_size) \o "_" \o url_hash
                          \o "_" \o doc.file_name
  IN [file_name |-> doc.file_name,
      file_size |-> file_size,
      first_words |-> IF script.preview = "fail" THEN fallback_preview
                      ELSE get_document_preview_robust(doc, config, script)]

\* the same remote document submitted twice
Resubmit(doc, s1, s2) ==
  /\ probe = NoCall
  /\ probe' = [fn |-> "preview", doc |-> doc, s1 |-> s1, s2 |-> s2,
               first |-> get_document_preview(doc, s1),
               second |-> get_document_preview(doc, s2)]
  /\ UNCHANGED pureFrame

\* ---------------------------------------- segmentation (chunkCreator.py)
\* most words of a text handed to the segmenter
MaxTokens == 3

\* chunkCreator.py:17-28  the pattern families, in the order they are tried
Patterns == <<"numbered", "letter", "roman", "clause", "article">>

\* The words a text is made of (a text is its words joined by one blank).
\* For each word: its length and the header matches the patterns find in
\* it when whitespace follows, as re.finditer with re.IGNORECASE does:
\* pattern, offset of the match in the word, and the header group, written
\* as label followed by its closing punctuation.
Words ==
  { [s |-> "1.", len |-> 2,
     m |-> {[pattern |-> "numbered", off |-> 0, label |-> "1", punct |-> "."]}],
    [s |-> "1.1.", len |-> 4,
     m |-> {[pattern |-> "numbered", off |-> 0, label |-> "1.1", punct |-> "."]}],
    [s |-> "A.", len |-> 2,
     m |-> {[pattern |-> "letter", off |-> 0, label |-> "A", punct |-> "."]}],
    [s |-> "II.", len |-> 3,
     m |-> {[pattern |-> "letter", off |-> 1, label |-> "I", punct |-> "."],
            [pattern |-> "roman", off |-> 0, label |-> "II", punct |-> "."]}],
    [s |-> "Clause 1:", len |-> 9,
     m |-> {[pattern |-> "clause", off |-> 0, label |-> "Clause 1", punct |-> ":"]}],
    [s |-> "Article 2.", len |-> 10,
     m |-> {[pattern |-> "article", off |-> 0, label |-> "Article 2", punct |-> "."],
            [pattern |-> "numbered", off |-> 8, label |-> "2", punct |-> "."]}],
    [s |-> "cover", len |-> 5, m |-> {}],
    [s |-> "theinsuredpersonshallbecoveredforfortydays", len |-> 42, m |-> {}],
    [s |-> "paid.", len |-> 5,
     m |-> {[pattern |-> "letter", off |-> 3, label |-> "d", punct |-> "."]}] }

\* a run of 40 blanks between two words (whitespace holds no header)
Gap == [s |-> "                                        ", len |-> 40, m |-> {}]

\* the texts: they begin and end with a word
WordSeqs ==
  UNION {{t \in [1..n -> Words \cup {Gap}] : t[1] # Gap /\ t[n] # Gap} : n \in 1..MaxTokens}

RECURSIVE WordStart(_, _)
\* offset of the k-th word in the text
WordStart(toks, k) ==
  IF k = 1 THEN 0 ELSE WordStart(toks, k - 1) + toks[k - 1].len + 1

\* len(full_text)
TextLen(toks) == WordStart(toks, Len(toks)) + toks[Len(toks)].len

RECURSIVE FindIter(_, _, _)
\* chunkCreator.py:35  list(re.finditer(pattern, full_text, re.IGNORECASE)):
\* the matches in source order; the header of the last word has no
\* whitespace after it and does not match
FindIter(toks, pattern, k) ==
  IF k >= Len(toks) THEN <<>>
  ELSE LET ms == {x \in toks[k].m : x.pattern = pattern} IN
       (IF ms = {} THEN <<>>
        ELSE LET x == CHOOSE y \in ms : TRUE IN
             <<[start |-> WordStart(toks, k) + x.off, off |-> x.off, word |-> k,
                header |-> [label |-> x.label, punct |-> x.punct]]>>)
       \o FindIter(toks, pattern, k + 1)

RECURSIVE BestMatches(_, _, _)
\* chunkCreator.py:30-38  the first pattern with the most matches
BestMatches(toks, p, best) ==
  IF p > Len(Patterns) THEN best
  ELSE LET matches == FindIter(toks, Patterns[p], 1) IN
       BestMatches(toks, p + 1, IF Len(matches) > Len(best) THEN matches ELSE best)

\* chunkCreator.py:56  group("header").strip(".:").strip()
SectionNumber(header) == header.label

\* mutant: every span runs to the end of the text
SpanEndIsTextEnd(toks, best_matches, i) == TextLen(toks)

\* chunkCreator.py:54  the start of the next match, or len(full_text)
SpanEnd(toks, best_matches, i) ==
  IF i + 1 <= Len(best_matches) THEN best_matches[i + 1].start ELSE TextLen(toks)

\* the last word the span of match i reaches into
SpanLastWord(toks, best_matches, i) ==
  IF i + 1 <= Len(best_matches)
  THEN (IF best_matches[i + 1].off = 0 THEN best_matches[i + 1].word - 1
        ELSE best_matches[i + 1].word)
  ELSE Len(toks)

\* the last word of the span that is not whitespace
SpanLastText(toks, best_matches, i) ==
  LET ws == {j \in best_matches[i].word..SpanLastWord(toks, best_matches, i) :
               toks[j] # Gap}
  IN CHOOSE j \in ws : \A k \in ws : k <= j

\* chunkCreator.py:57  len(full_text[start:end].strip()): the span ends with
\* the blank before the next header when that header starts a word, and
\* with the whitespace before that blank
StrippedLen(toks, best_matches, i) ==
  LET start == best_matches[i].start
      end == SpanEnd(toks, best_matches, i)
  IN end - start
     - (IF i + 1 <= Len(best_matches) /\ best_matches[i + 1].off = 0 THEN 1 ELSE 0)
     - (SpanLastWord(toks, best_matches, i) - SpanLastText(toks, best_matches, i))
         * (Gap.len + 1)

\* chunkCreator.py:60-62  the length of the text once re.sub(r'\s+', ' ') has
\* made one blank of every run of whitespace left inside it
NormalizedLen(toks, best_matches, i) ==
  StrippedLen(toks, best_matches, i)
  - (Gap.len + 1)
      * Cardinality({j \in best_matches[i].word..SpanLastText(toks, best_matches, i) :
                       toks[j] = Gap})

RECURSIVE ProcessMatches(_, _, _)
\* chunkCreator.py:52-68  one chunk per match whose text is substantial
ProcessMatches(toks, best_matches, i) ==
  IF i > Len(best_matches) THEN <<>>
  ELSE (IF StrippedLen(toks, best_matches, i) > 30
        THEN <<[section_number |-> SectionNumber(best_matches[i].header),
                start |-> best_matches[i].start,
                end |-> SpanEnd(toks, best_matches, i),
                text_len |-> NormalizedLen(toks, best_matches, i)]>>
        ELSE <<>>)
       \o ProcessMatches(toks, best_matches, i + 1)

\* chunkCreator.py:7-70 on a text without blank lines; each chunk is given
\* with the span of the source its text is cut from and the length of its
\* text (a paragraph is returned as it is, lines 42-48)
chunk_pageText_spans(toks) ==
  LET best_matches == BestMatches(toks, 1, <<>>) IN
  IF best_matches = <<>>
  THEN (IF TextLen(toks) > 50
        THEN <<[section_number |-> "para_1", start |-> 0, end |-> TextLen(toks),
                text_len |-> TextLen(toks)]>>
        ELSE <<>>)
  ELSE ProcessMatches(toks, best_matches, 1)

Segment(toks) ==
  /\ probe = NoCall
  /\ probe' = [fn |-> "segment", text |-> toks,
               matches |-> BestMatches(toks, 1, <<>>),
               result |-> chunk_pageText_spans(toks)]
  /\ UNCHANGED pureFrame

\* ------------------------------------------ intent extraction (parser.py)
\* parser.py:61-71  the topics and their keywords, in the order of the dict
Topics ==
  <<[topic |-> "premium",        keywords |-> {"premium", "payment", "pay"}],
    [topic |-> "waiting_period", keywords |-> {"waiting", "period", "wait"}],
    [topic |-> "coverage",       keywords |-> {"cover", "coverage", "covered", "benefit"}],
    [topic |-> "exclusion",      keywords |-> {"exclude", "exclusion", "not covered"}],
    [topic |-> "claim",          keywords |-> {"claim", "reimbursement"}],
    [topic |-> "maternity",      keywords |-> {"maternity", "pregnancy", "childbirth"}],
    [topic |-> "surgery",        keywords |-> {"surgery", "operation", "procedure"}],
    [topic |-> "hospital",       keywords |-> {"hospital", "hospitalization"}],
    [topic |-> "pre_existing",   keywords |-> {"pre-existing", "PED"}]>>

TopicNames == {Topics[k].topic : k \in 1..Len(Topics)}

\* parser.py:80-97  the question types
QuestionTypes == {"what", "when", "how", "yes_no", "where", "why", "general"}

\* questions, lower-cased: the words they start with, and the substrings
\* of the keyword lists they contain
IntentQuestions ==
  [starts : {"what", "which", "when", "how long", "how", "does", "is", "where",
             "why", "tell"},
   contains : {{}, {"premium"}, {"period", "cover"}, {"claim"}, {"ped"}, {"pre-existing"}}]

\* the lower-cased question, cut to 50 characters
Lower50(q) == q.starts \o " ..."

RECURSIVE FirstTopic(_, _)
\* parser.py:73-78  the first topic one of whose keywords is in the question
FirstTopic(q, k) ==
  IF k > Len(Topics) THEN "general"
  ELSE IF Topics[k].keywords \cap q.contains # {} THEN Topics[k].topic
  ELSE FirstTopic(q, k + 1)

extract_main_topic(q) == FirstTopic(q, 1)

\* parser.py:80-97
extract_question_type(q) ==
  IF q.starts \in {"what", "which"} THEN "what"
  ELSE IF q.starts \in {"when", "how long"} THEN "when"
  ELSE IF q.starts \in {"how"} THEN "how"
  ELSE IF q.starts \in {"does", "is", "are", "can"} THEN "yes_no"
  ELSE IF q.starts = "where" THEN "where"
  ELSE IF q.starts = "why" THEN "why"
  ELSE "general"

\* gemini.py:28-58  requests one generate_response call sends to the
\* generation service: one per attempt, until an attempt succeeds
GenerateCalls(script) == Min2(script.nfail + 1, max_retries)

\* parser.py:12-57  the intent returned and the requests sent on the way;
\* raises: the executor call raises before the client is reached
extract_question_intent_async(q, script, raises) ==
  IF raises
  THEN [main_topic |-> Lower50(q), question_type |-> "general",
        answer_type |-> "general", gen_calls |-> 0]
  ELSE [main_topic |-> extract_main_topic(q),
        question_type |-> extract_question_type(q),
        answer_type |-> "definition", gen_calls |-> GenerateCalls(script)]

ExtractIntent(q, script, raises) ==
  /\ probe' = [fn |-> "intent", question |-> q, raises |-> raises,
               intent |-> extract_question_intent_async(q, script, raises)]
  /\ UNCHANGED pureFrame

\* ------------------------------ candidates requested (retriever.py:10-46)
\* the values of top_k retrieve_top_chunks_async is called with
BaseTopKs == {5, 10, 15, 20, 25, 30}

\* the answer types an intent dict may carry
AnswerTypes == {"definition", "general", "list"}

\* nothing is requested from the similarity store
NoTopK == -1

\* retriever.py:39-46
adjust_top_k_by_intent(intent, base_top_k) ==
  IF intent.question_type = "yes_no" THEN Min2(base_top_k, 10)
  ELSE IF intent.answer_type = "list" THEN Min2(base_top_k + 5, 25)
  ELSE base_top_k

\* a direct call of adjust_top_k_by_intent
AdjustTopK(intent, base_top_k) ==
  /\ probe' = [fn |-> "adjust", intent |-> intent, top_k |-> base_top_k,
               requested |-> adjust_top_k_by_intent(intent, base_top_k)]
  /\ UNCHANGED pureFrame

\* retriever.py:10-32  the intent of the query is extracted, the query is
\* embedded (nothing is searched when it has no vector) and the search is
\* issued with the adjusted top_k
Retrieve(q, script, raises, has_vector, top_k) ==
  LET intent == extract_question_intent_async(q, script, raises) IN
  /\ probe' = [fn |-> "retrieve", question |-> q, intent |-> intent, top_k |-> top_k,
               requested |-> IF has_vector THEN adjust_top_k_by_intent(intent, top_k)
                             ELSE NoTopK]
  /\ UNCHANGED pureFrame

\* ------------------------------ one item of a batch (embeddings.py:94-139)
EmbedItem(chunk, script) ==
  /\ probe' = [fn |-> "embed_item", kind |-> chunk.kind, script |-> script,
               item |-> embed_single_chunk_async(chunk, script)]
  /\ UNCHANGED pureFrame

\* ------------------- long extractions (document_service.py:245-275)
\* most units the extractor yields beyond the 1000 of the xlarge ceiling
MaxBeyond == 2

\* document_service.py:249-265  the loop over n units of a document of the
\* given tier: the units counted and the units added to full_text
ExtractUnits(type, n) ==
  LET x == ExtractLoop([k \in 1..n |-> 3], type, <<>>, 0) IN
  /\ probe' = [fn |-> "extract", type |-> type, yielded |-> n,
               page_count |-> x.page_count, added |-> Len(x.full_text),
               broke |-> x.broke]
  /\ UNCHANGED pureFrame

\* ------------------------------ tier table (document_service.py:23-50)
\* most API keys the service is configured with
MaxKeys == 9

\* mutant: the batch size of xlarge is the one of small
SizeConfigsXlargeWide(k) ==
  LET max_batch == Max2(5, Min2(k * 3, 15))
      med_batch == Max2(5, Min2(k * 2, 10))
      min_batch == Max2(3, Min2(k, 8))
  IN <<[type |-> "small",  timeout |-> 30,  chunk_batch |-> max_batch],
       [type |-> "medium", timeout |-> 120, chunk_batch |-> med_batch],
       [type |-> "large",  timeout |-> 300, chunk_batch |-> min_batch],
       [type |-> "xlarge", timeout |-> 600, chunk_batch |-> max_batch]>>

\* document_service.py:27-43  the table __init__ builds for k API keys, in
\* the order of the tiers
SizeConfigsFor(k) ==
  LET max_batch == Max2(5, Min2(k * 3, 15))
      med_batch == Max2(5, Min2(k * 2, 10))
      min_batch == Max2(3, Min2(k, 8))
  IN <<[type |-> "small",  timeout |-> 30,  chunk_batch |-> max_batch],
       [type |-> "medium", timeout |-> 120, chunk_batch |-> med_batch],
       [type |-> "large",  timeout |-> 300, chunk_batch |-> min_batch],
       [type |-> "xlarge", timeout |-> 600, chunk_batch |-> min_batch]>>

\* DocumentService() with k keys in GOOGLE_API_KEY
DocumentServiceInit(k) ==
  /\ probe' = [fn |-> "config", k |-> k, configs |-> SizeConfigsFor(k)]
  /\ UNCHANGED pureFrame

\* one call per behaviour: nothing is called once probe holds a call
NextPure ==
  \/ probe = NoCall /\ \E cands \in CandidateSeqs, t \in IntentTypes : Rerank(cands, t)
  \/ probe = NoCall /\ \E a \in FingerprintTriples, b \in FingerprintTriples :
                         Fingerprint(a, b)
  \/ probe = NoCall /\ \E doc \in RemoteDocs, s1 \in PreviewScripts, s2 \in PreviewScripts :
                         Resubmit(doc, s1, s2)
  \/ probe = NoCall /\ \E toks \in WordSeqs : Segment(toks)
  \/ probe = NoCall /\ \E q \in IntentQuestions, script \in GenScripts, raises \in BOOLEAN :
                         ExtractIntent(q, script, raises)
  \/ probe = NoCall /\ \E k \in 1..MaxKeys : DocumentServiceInit(k)
  \/ probe = NoCall /\ \E k \in TextKinds, script \in Scripts \cup MixedScripts :
                         EmbedItem([kind |-> k, id |-> 1], script)
  \/ probe = NoCall /\ \E type \in {"large", "xlarge"}, n \in 998..(1000 + MaxBeyond) :
                         ExtractUnits(type, n)
  \/ probe = NoCall /\ \E t \in QuestionTypes, a \in AnswerTypes, k \in BaseTopKs :
                         AdjustTopK([question_type |-> t, answer_type |-> a], k)
  \/ probe = NoCall /\ \E q \in IntentQuestions, script \in GenScripts,
                           raises \in BOOLEAN, has_vector \in BOOLEAN, k \in BaseTopKs :
                         Retrieve(q, script, raises, has_vector, k)

SpecPure == Init /\ [][NextPure]_vars

\* --------------------------- tier budgets (document_service.py:38-43)
\* document_service.py:215-218, 246  the budget of the tier is read into
\* config and printed; no timer is armed for it (no wait_for, no deadline in
\* _extract_text_robust or _process_chunks_in_batches), so the moment the
\* budget runs out changes nothing in the ingestion
BudgetExpires(w) ==
  /\ pc[w] \in {"extract", "store", "batch", "gather"}
  /\ expired[w] = 0
  /\ expired' = [expired EXCEPT ![w] = get_config_for_size(ref[w].file_size).timeout]
  /\ UNCHANGED <<ingestVars, embedVars, upserts, answerVars, pureVars, collVars, clientVars>>

NextTimed ==
  \/ Next
  \/ \E w \in Workers : BudgetExpires(w)

SpecTimed == Init /\ [][NextTimed]_vars

\* ------------------- collection management (vector_store.py:60-110, 147-227)
collFrame == <<ingestVars, embedVars, upserts, answerVars, pureVars, timeVars, clientVars>>

\* a dimension an earlier deployment may have created the collection with
OTHER_DIM == 384

\* the states the collection is in when the first call arrives
CollStates ==
  {[exists |-> FALSE, dimension |-> 0, points_count |-> 0, set |-> TRUE]} \cup
  [exists : {TRUE}, dimension : {VECTOR_DIM, OTHER_DIM}, points_count : {0, 1},
   set : {TRUE}]

\* the collection as the deployment finds it
Provision(c0) ==
  /\ ~coll.set
  /\ coll' = c0
  /\ UNCHANGED <<ens, collFrame>>

\* vector_store.py:80-110  what get_collection_info returns
get_collection_info(c, detailFails) ==
  IF ~c.exists THEN [exists |-> FALSE, dimension |-> 0, points_count |-> 0]
  ELSE IF detailFails THEN [exists |-> TRUE, dimension |-> VECTOR_DIM, points_count |-> 0]
  ELSE [exists |-> TRUE, dimension |-> c.dimension, points_count |-> c.points_count]

\* vector_store.py:214-217, 149-155, 60-78  upsert_chunks_async calls
\* ensure_collection_correct_async, which asks whether the collection
\* exists (an error of the check reads as "does not exist")
CollectionExists(c) ==
  /\ coll.set
  /\ ens[c] = "idle"
  /\ \E checkFails \in BOOLEAN :
       ens' = [ens EXCEPT ![c] = IF coll.exists /\ ~checkFails THEN "info" ELSE "create"]
  /\ UNCHANGED <<coll, collFrame>>

\* vector_store.py:157-195  the details are read and the branch is taken
GetCollectionInfo(c) ==
  /\ ens[c] = "info"
  /\ \E detailFails \in BOOLEAN :
       LET info == get_collection_info(coll, detailFails) IN
       ens' = [ens EXCEPT ![c] =
                 IF ~info.exists THEN "upsert"
                 ELSE IF info.dimension = VECTOR_DIM THEN "upsert"
                 ELSE IF info.points_count > 0 THEN "raised"
                 ELSE "delete"]
  /\ UNCHANGED <<coll, collFrame>>

\* vector_store.py:189  client.delete_collection: the collection goes with
\* whatever it holds by now
DeleteCollection(c) ==
  /\ ens[c] = "delete"
  /\ coll' = [exists |-> FALSE, dimension |-> 0, points_count |-> 0, set |-> TRUE]
  /\ ens' = [ens EXCEPT ![c] = "create"]
  /\ UNCHANGED collFrame

\* vector_store.py:200-210  client.create_collection raises when the
\* collection exists
CreateCollection(c) ==
  /\ ens[c] = "create"
  /\ IF coll.exists
       THEN /\ ens' = [ens EXCEPT ![c] = "raised"]
            /\ UNCHANGED coll
       ELSE /\ coll' = [exists |-> TRUE, dimension |-> VECTOR_DIM, points_count |-> 0,
                        set |-> TRUE]
            /\ ens' = [ens EXCEPT ![c] = "upsert"]
  /\ UNCHANGED collFrame

\* vector_store.py:220-221, 317-329  the vector task upserts one point of
\* VECTOR_DIM elements; the store rejects it when the collection is missing
\* or has another dimension
UpsertPoint(c) ==
  /\ ens[c] = "upsert"
  /\ IF coll.exists /\ coll.dimension = VECTOR_DIM
       THEN /\ coll' = [coll EXCEPT !.points_count = @ + 1]
            /\ ens' = [ens EXCEPT ![c] = "done"]
       ELSE /\ ens' = [ens EXCEPT ![c] = "raised"]
            /\ UNCHANGED coll
  /\ UNCHANGED collFrame

NextColl ==
  \/ \E c0 \in CollStates : Provision(c0)
  \/ \E c \in Workers : CollectionExists(c)
  \/ \E c \in Workers : GetCollectionInfo(c)
  \/ \E c \in Workers : DeleteCollection(c)
  \/ \E c \in Workers : CreateCollection(c)
  \/ \E c \in Workers : UpsertPoint(c)

SpecColl == Init /\ [][NextColl]_vars

\* ------------------------- pacing between batches (embeddings.py:29, 46-85)
\* most texts handed to a paced run
MaxPaced == 12

\* embeddings.py:29  max(0.5, 3.0 / NUM_API_KEYS), in milliseconds
INTER_BATCH_DELAY == Max2(500, 3000 \div NUM_API_KEYS)

\* mutant: the delay does not look at the time the batch took
AdaptiveDelayFixed(slow) == INTER_BATCH_DELAY

\* embeddings.py:78-82  the delay after a batch; slow: batch_time > 10
adaptive_delay(slow) ==
  IF slow THEN INTER_BATCH_DELAY * 2 ELSE INTER_BATCH_DELAY

\* embeddings.py:33-46  the call with n texts (each of them embeddable)
PacedCall(n) ==
  /\ pace.pc = "idle"
  /\ pace' = [pc |-> IF n = 0 THEN "returned" ELSE "batch", n |-> n, i |-> 0,
              delays |-> <<>>]
  /\ UNCHANGED <<ingestVars, embedVars, upserts, answerVars, pureVars, timeVars,
                 collVars, rot>>

\* embeddings.py:47-85  the gather of the batch at i returns after
\* batch_time seconds; when texts are left beyond the batch the delay is
\* computed afresh and slept, otherwise the loop is over
GatherBatch(slow) ==
  /\ pace.pc = "batch"
  /\ pace' = IF pace.i + SMART_BATCH_SIZE < pace.n
             THEN [pace EXCEPT !.pc = "sleep",
                               !.delays = Append(@, [after |-> pace.i, slow |-> slow,
                                                     delay |-> adaptive_delay(slow)])]
             ELSE [pace EXCEPT !.pc = "returned"]
  /\ UNCHANGED <<ingestVars, embedVars, upserts, answerVars, pureVars, timeVars,
                 collVars, rot>>

\* embeddings.py:85, 47  the sleep is over: the next batch
PacingSleep ==
  /\ pace.pc = "sleep"
  /\ pace' = [pace EXCEPT !.pc = "batch", !.i = @ + SMART_BATCH_SIZE]
  /\ UNCHANGED <<ingestVars, embedVars, upserts, answerVars, pureVars, timeVars,
                 collVars, rot>>

NextPace ==
  \/ \E n \in 0..MaxPaced : PacedCall(n)
  \/ \E slow \in BOOLEAN : GatherBatch(slow)
  \/ PacingSleep

SpecPace == Init /\ [][NextPace]_vars

\* ----------------------------- key rotation (gemini.py:13-26, 60-109)
\* most keys a client is constructed with, most key selections followed
MaxClientKeys == 3
MaxSelections == 4

\* what a step of the client leaves alone
rotFrame == <<ingestVars, embedVars, upserts, answerVars, pureVars, timeVars,
              collVars, pace>>

\* gemini.py:13-23  GeminiClient(api_keys): keys 1..n, the cycle at key 1
GeminiClientInit(n) ==
  /\ rot.keys = 0
  /\ rot' = [rot EXCEPT !.keys = n]
  /\ UNCHANGED rotFrame

\* gemini.py:23-26  next(self.key_cycle) for the n-th selection (from 0)
get_next_key(n) == (n % rot.keys) + 1

\* gemini.py:66-68  an executor thread enters embed_text, or comes round
\* its loop again, and takes the next key of the cycle
SelectKey(t) ==
  /\ rot.keys > 0
  /\ rot.thr[t].pc \in {"idle", "retry"}
  /\ rot.next < MaxSelections
  /\ rot' = [rot EXCEPT !.next = @ + 1,
                        !.thr[t].pc = "configure",
                        !.thr[t].key = get_next_key(rot.next),
                        !.thr[t].sel = rot.next,
                        !.thr[t].attempt = IF rot.thr[t].pc = "idle" THEN 0 ELSE @ + 1]
  /\ UNCHANGED rotFrame

\* gemini.py:69  genai.configure(api_key=key) sets the key of the genai
\* module, which every thread of the process shares
Configure(t) ==
  /\ rot.thr[t].pc = "configure"
  /\ rot' = [rot EXCEPT !.configured = rot.thr[t].key, !.thr[t].pc = "request"]
  /\ UNCHANGED rotFrame

\* gemini.py:74-78, 100-109  genai.embed_content sends the request with the
\* key the module holds at that moment; a failed request is tried again
\* unless it was the third
EmbedContent(t, fails) ==
  /\ rot.thr[t].pc = "request"
  /\ rot' = [rot EXCEPT !.sent = Append(@, [sel |-> rot.thr[t].sel, thread |-> t,
                                            selected |-> rot.thr[t].key,
                                            used |-> rot.configured]),
                        !.thr[t].pc = IF fails /\ rot.thr[t].attempt < max_retries - 1
                                      THEN "retry" ELSE "idle"]
  /\ UNCHANGED rotFrame

NextKeys ==
  \/ \E n \in 1..MaxClientKeys : GeminiClientInit(n)
  \/ \E t \in Workers : SelectKey(t)
  \/ \E t \in Workers : Configure(t)
  \/ \E t \in Workers, fails \in BOOLEAN : EmbedContent(t, fails)

SpecKeys == Init /\ [][NextKeys]_vars

\* ================================================================ claims
CeilDiv(n, b) == (n + b - 1) \div b

DocRowsOf(id) == {d \in docs : d.id = id}
ChunkRowsOf(id) == {r \in BagToSet(chunkRows) : r.document_id = id}

\* C1: of two ingestOrReuse calls with the same triple, the second started
\* after the first returned its id, the second never triggers embedding and,
\* when it returns an id, returns the id of the first.
C1_DedupIdempotent ==
  \A w \in Workers : \A v \in doneBefore[w] :
    (op[w] = "ingestOrReuse" /\ ref[v] = ref[w]) =>
      /\ embedded[w] = {}
      /\ pc[w] \in {"reused", "done"} => result[w] = result[v]

C1_Witness ==
  \E w \in Workers : \E v \in doneBefore[w] :
    /\ op[w] = "ingestOrReuse" /\ ref[v] = ref[w]
    /\ pc[w] = "reused" /\ result[w] = docId[v]
    /\ embedded[v] # {}

\* C2: no two Document rows have the same contentHash, also while several
\* ingestions of the same new document run concurrently.
C2_UniqueContentHash ==
  \A d1 \in docs : \A d2 \in docs : d1.content_hash = d2.content_hash => d1 = d2

C2_Witness ==
  \E w \in Workers : \E v \in Workers \ {w} :
    /\ faults = 0
    /\ lookup[w] = NoId /\ lookup[v] = NoId
    /\ DocRowsOf(docId[w]) # {}
    /\ pc[w] \in {"batch", "gather"}
    /\ pc[v] \in {"cleanup", "failed"} /\ cause[v] = "metadata"

\* C3: once a request that found a fingerprint miss has completed
\* successfully, a Document with that contentHash is persisted.
C3_MissIngests ==
  \A w \in Workers :
    (op[w] = "run_query" /\ pc[w] = "answered" /\ lookup[w] = NoId) =>
      \E d \in docs : d.content_hash = HashOf(ref[w])

\* C4: after an ingestion ended in a fatal failure and its cleanup completed
\* without error, no Document row and no Chunk row carries its documentId.
C4_CleanupLeavesNoRows ==
  \A w \in Workers :
    (pc[w] = "failed" /\ cleanupOk[w]) =>
      /\ DocRowsOf(docId[w]) = {}
      /\ ChunkRowsOf(docId[w]) = {}

C4_Witness ==
  \E w \in Workers :
    /\ pc[w] = "failed" /\ cleanupOk[w]
    /\ cause[w] = "batch"
    /\ failedJobs[w] # {} /\ 0 \notin failedJobs[w]
    /\ orphans = {}

JobStarts(w) == {jobs[w][k].start : k \in 1..Len(jobs[w])}
AllStarts(n, b) == {k * b : k \in 0..(CeilDiv(n, b) - 1)}

\* C5: a failed BatchJob of a large or xlarge document is skipped (the
\* ingestion never fails on it and ends DONE with every job processed); a
\* failed BatchJob of a small or medium document is the last job formed and
\* the ingestion ends FAILED.
C5_PartialFailurePolicy ==
  \A w \in Workers :
    failedJobs[w] # {} =>
      IF TierOf(ref[w]) \in {"large", "xlarge"}
      THEN /\ pc[w] \in {"batch", "gather", "done"}
           /\ pc[w] = "done" =>
                JobStarts(w) = AllStarts(Len(chunks[w]), BatchOf(ref[w]))
      ELSE /\ pc[w] \in {"cleanup", "failed"}
           /\ cause[w] = "batch"
           /\ \A s \in JobStarts(w) : \A f \in failedJobs[w] : s <= f

C5_Witness ==
  \E w \in Workers :
    /\ TierOf(ref[w]) = "xlarge"
    /\ failedJobs[w] = {0}
    /\ pc[w] = "done"
    /\ Len(jobs[w]) = 2

\* C9 (as claimed): an ingestion of N >= 1 chunks that has started batching
\* forms exactly ceil(N/B) BatchJobs and submits every chunk for embedding.
C9_AllJobsFormed ==
  \A w \in Workers :
    (pc[w] \in {"done", "failed"} /\ Len(chunks[w]) >= 1 /\ Len(jobs[w]) >= 1) =>
      /\ Len(jobs[w]) = CeilDiv(Len(chunks[w]), BatchOf(ref[w]))
      /\ embedded[w] = 0..(Len(chunks[w]) - 1)

\* C9 (amended): the BatchJobs formed are the first jobs of the contiguous
\* in-order partition of the chunk list into slices of B, the chunks
\* submitted are those of the jobs formed, and an ingestion that ends DONE
\* has formed all ceil(N/B) jobs and submitted every chunk.
C9_JobsPartition ==
  \A w \in Workers :
    LET n == Len(chunks[w])
        b == BatchOf(ref[w])
    IN
    /\ Len(jobs[w]) <= CeilDiv(n, b)
    /\ \A k \in 1..Len(jobs[w]) :
         /\ jobs[w][k].start = (k - 1) * b
         /\ jobs[w][k].chunks = [j \in 1..(Min2(k * b, n) - (k - 1) * b) |->
                                   chunks[w][(k - 1) * b + j]]
    /\ embedded[w] = 0..(Min2(Len(jobs[w]) * b, n) - 1)
    /\ pc[w] = "done" =>
         /\ Len(jobs[w]) = CeilDiv(n, b)
         /\ embedded[w] = 0..(n - 1)

C9_Witness ==
  \E w \in Workers :
    /\ pc[w] = "done"
    /\ Len(chunks[w]) = 6
    /\ BatchOf(ref[w]) = 5
    /\ Len(jobs[w]) = 2
    /\ Len(jobs[w][2].chunks) = 1

\* C10: when the extractor raises after p >= 1 units the ingestion goes on
\* with the text of exactly those p units and is not failed by the
\* extraction error; when it raises before any unit the ingestion fails.
C10_PartialExtraction ==
  \A w \in Workers :
    /\ extractErr[w] >= 1 =>
         /\ pc[w] \in {"store", "cleanup", "failed"}
         /\ cause[w] # "extraction"
         /\ page_count[w] = extractErr[w]
         /\ full_text[w] = yielded[w]
         /\ Len(full_text[w]) = extractErr[w]
         /\ chunks[w] = chunk_pageText(yielded[w])
         /\ (pc[w] # "store") => (cause[w] = "segmentation" /\ chunks[w] = <<>>)
    /\ extractErr[w] = 0 =>
         /\ pc[w] \in {"cleanup", "failed"}
         /\ cause[w] = "extraction"

C10_Witness ==
  \E w \in Workers :
    /\ extractErr[w] = 1
    /\ yielded[w] = <<3>>
    /\ pc[w] = "store"
    /\ Len(chunks[w]) = 3

\* the elements of the list a raw vector is or wraps (one level of nesting,
\* a dict under one of the accepted keys)
RECURSIVE RawRuns(_)
RawRuns(raw) ==
  IF raw.tag = "list" THEN raw.runs
  ELSE IF raw.tag = "nested" THEN raw.first
  ELSE IF raw.tag = "dict" THEN RawRuns(raw.val)
  ELSE <<>>

\* C6: every vector written to the similarity store has VECTOR_DIM numeric
\* components and they are the components of the raw vector it was made
\* from: that raw vector has VECTOR_DIM elements, all of them numbers.
C6_VectorAcceptance ==
  \A p \in BagToSet(points) :
    /\ VecLen(p.vector) = VECTOR_DIM
    /\ NumCount(p.vector.runs) = VECTOR_DIM
    /\ RunsLen(RawRuns(p.raw)) = VECTOR_DIM
    /\ NumCount(RawRuns(p.raw)) = VECTOR_DIM

\* C7: embed_chunks_async returns one result per text, and result i is the
\* embedding of texts[i] or None, whatever the length of the list and
\* whichever items fail, return nothing or raise.
C7_OneResultPerText ==
  embed_pc = "returned" =>
    /\ Len(embeddings) = Len(texts)
    /\ \A i \in 1..Len(texts) :
         /\ embeddings[i] \in {NoVec, FlatList(EmbeddingFor(texts[i]))}
         /\ texts[i].kind # "ok" => embeddings[i] = NoVec

C7_Witness ==
  /\ embed_pc = "returned"
  /\ Len(texts) = SMART_BATCH_SIZE + 1
  /\ texts[1].kind = "bad" /\ texts[2].kind = "short"
  /\ texts[3].kind = "ok" /\ embeddings[3] = NoVec
  /\ embeddings[SMART_BATCH_SIZE + 1] = FlatList(EmbeddingFor(texts[SMART_BATCH_SIZE + 1]))

\* C8: an item whose failures are neither rate-limit-like nor
\* connection-like is attempted once and yields None.
C8_OtherFailureNotRetried ==
  (lastItem # NoItem /\ lastItem.kind = "ok"
     /\ lastItem.script.cls = "other" /\ lastItem.script.nfail >= 1) =>
    /\ lastItem.tries = 1
    /\ lastItem.res = NoVec

\* the messages an answer may be when something failed or nothing was found
FixedMessages ==
  { "embedding_error", "rag_error", "no_relevant_chunks", "no_text_in_chunks",
    "no_relevant_information", "generation_error", "incomplete_answer",
    "temporary_maintenance", "temporary_spark plug", "temporary_brake",
    "temporary_tyre", "temporary_oil", "temporary_javascript" }

\* C11: an answer that is not a generated reply is one of the fixed
\* messages, and no answer carries the text of an internal error.
C11_NoInternalErrorText ==
  \A i \in 1..Len(answers) :
    /\ answers[i].detail = ""
    /\ answers[i].msg # "generated" => answers[i].msg \in FixedMessages

\* C18: a request with q questions returns q answers, answer i is the one
\* the task of question i produced, and a failure of one question leaves
\* the answers of the others in place.
C18_AnswersInOrder ==
  req_pc = "returned" =>
    /\ Len(answers) = Len(questions)
    /\ \A i \in 1..Len(questions) : answers[i].q = questions[i].id
    /\ \A i \in 1..Len(questions) : answers[i] = q_result[i]

C18_Witness ==
  /\ req_pc = "returned"
  /\ Len(questions) = 2
  /\ answers[1].msg = "rag_error" /\ answers[1].q = 1
  /\ answers[2].msg = "generated" /\ answers[2].q = 2

\* C12: rerank_chunks_by_intent returns a permutation of the candidates,
\* by descending score, candidates of equal score in their input order.
C12_StableRerank ==
  probe.fn = "rerank" =>
    LET n == Len(probe.chunks)
        sc(k) == relevance_score(probe.chunks[probe.order[k]], probe.question_type)
    IN
    /\ Len(probe.order) = n
    /\ {probe.order[k] : k \in 1..n} = 1..n
    /\ \A a \in 1..n : \A b \in (a + 1)..n :
         /\ sc(a) >= sc(b)
         /\ sc(a) = sc(b) => probe.order[a] < probe.order[b]

\* C13: the fingerprint is deterministic, and two triples that differ in a
\* component are given different digest inputs.
C13_FingerprintInjective ==
  probe.fn = "hash" =>
    /\ probe.ha = probe.ha2
    /\ probe.a # probe.b => DigestInput(probe.a) # DigestInput(probe.b)

\* C14: two submissions of the same remote document derive the same triple
\* and the same contentHash, also when the size probe or the preview
\* extraction fails on one of them and succeeds on the other.
C14_ResubmitSameHash ==
  (/\ probe.fn = "preview"
   /\ probe.s1 = [head |-> "ok", preview |-> "ok"]
   /\ probe.s2.head \in {"ok", "fail"}
   /\ probe.s2.preview \in {"ok", "fail"}) =>
    /\ probe.first = probe.second
    /\ HashOf(probe.first) = HashOf(probe.second)

\* the requests that observed a fingerprint miss and went on to ingest
Missed(w) == op[w] = "ingestOrReuse" /\ lookup[w] = NoId /\ pc[w] # "idle"

\* document_service.py:289-308  inside the batch loop: embedding and persisting
InBatchLoop(w) == pc[w] \in {"batch", "gather"}

C16_ExpiredBudgetFails ==
  \A w \in Workers : expired[w] # 0 => pc[w] # "done"

\* C17: when the selected pattern has n matches, the chunks are at most n,
\* in source order, each labelled with the header that starts it without its
\* closing punctuation, and each cut from the span that runs from its
\* header's start to the next header's start or the end of the text.
C17_SegmentSpans ==
  (probe.fn = "segment" /\ probe.matches # <<>>) =>
    LET ms == probe.matches
        cs == probe.result
        n == Len(ms)
        NextStart(k) == IF k < n THEN ms[k + 1].start ELSE TextLen(probe.text)
    IN
    /\ Len(cs) <= n
    /\ \A i \in 1..Len(cs) :
         \E k \in 1..n :
           /\ cs[i].start = ms[k].start
           /\ cs[i].end = NextStart(k)
           /\ cs[i].section_number \o ms[k].header.punct
                = ms[k].header.label \o ms[k].header.punct
    /\ \A i \in 1..Len(cs) : \A j \in (i + 1)..Len(cs) : cs[i].end <= cs[j].start

C17_Witness ==
  /\ probe.fn = "segment"
  /\ Len(probe.matches) = 2
  /\ Len(probe.result) = 1
  /\ probe.result[1].section_number = "1.1"
  /\ probe.result[1].end = TextLen(probe.text)

\* C19: a collection that holds at least one point is never deleted or
\* recreated: no step takes a collection with points to a collection that
\* is missing, has another dimension or has fewer points.
C19_NeverDropsData ==
  [][(coll.exists /\ coll.points_count > 0) =>
       (/\ coll'.exists
        /\ coll'.dimension = coll.dimension
        /\ coll'.points_count >= coll.points_count)]_vars

\* C20: intent extraction sends no request to the generation service, and
\* the intent has its mainTopic in the taxonomy (or "general") and its
\* questionType in the enum, also when the extraction takes its error path.
C20_IntentOffline ==
  probe.fn = "intent" =>
    /\ probe.intent.gen_calls = 0
    /\ probe.intent.main_topic \in TopicNames \cup {"general"}
    /\ probe.intent.question_type \in QuestionTypes

\* C21 (as stated): for every number of keys, a larger tier has a longer
\* timeout and a smaller batch size than every smaller tier.
C21_StrictlySmallerBatches ==
  probe.fn = "config" =>
    \A i \in 1..4 : \A j \in (i + 1)..4 :
      /\ probe.configs[i].timeout < probe.configs[j].timeout
      /\ probe.configs[i].chunk_batch > probe.configs[j].chunk_batch

\* C21 (amended): a larger tier has a longer timeout and a batch size that
\* is not larger than the one of any smaller tier; large and xlarge have the
\* same batch size, and large has a smaller one than small and medium.
C21_NoLargerBatches ==
  probe.fn = "config" =>
    /\ \A i \in 1..4 : \A j \in (i + 1)..4 :
         /\ probe.configs[i].timeout < probe.configs[j].timeout
         /\ probe.configs[i].chunk_batch >= probe.configs[j].chunk_batch
    /\ probe.configs[3].chunk_batch = probe.configs[4].chunk_batch
    /\ probe.configs[2].chunk_batch > probe.configs[3].chunk_batch
    /\ \A i \in 1..4 : probe.configs[i].type = Tiers[i]
    /\ probe.k = num_api_keys =>
         \A i \in 1..4 : probe.configs[i].chunk_batch = size_configs[Tiers[i]].chunk_batch

C21_Witness ==
  /\ probe.fn = "config"
  /\ probe.k = 8
  /\ probe.configs[1].chunk_batch = 15
  /\ probe.configs[2].chunk_batch = 10
  /\ probe.configs[4].chunk_batch = 8

\* the rows of a bag that a step has added
AddedTo(bag, bagNext) ==
  {x \in BagToSet(bagNext) : CopiesIn(x, bagNext) > CopiesIn(x, bag)}

\* C22: the Chunk rows and the vector points of a document are persisted
\* in increasing chunkIndex order: a step that adds rows or points of a
\* document adds them above every index the store holds for it.
C22_PersistedInIndexOrder ==
  [][/\ \A x \in AddedTo(points, points') : \A y \in BagToSet(points) :
          y.document_id = x.document_id => y.chunk_id < x.chunk_id
     /\ \A x \in AddedTo(chunkRows, chunkRows') : \A y \in BagToSet(chunkRows) :
          y.document_id = x.document_id => y.chunk_id < x.chunk_id]_vars

\* the Chunk rows and the vector points written for a document id
WrittenFor(id) ==
  {r \in BagToSet(chunkRows) : r.document_id = id} \cup
  {x \in BagToSet(points) : x.document_id = id}

\* C23: the Document row, with total_chunks set to the number of chunks, is
\* committed before any Chunk row or vector point of the document: before
\* the metadata write nothing is written for the id, and while the
\* ingestion has not been cleaned up whatever is written for the id has its
\* Document row.
C23_DocumentRowFirst ==
  \A w \in Workers :
    /\ pc[w] \in {"extract", "store"} => WrittenFor(docId[w]) = {}
    /\ (pc[w] \in {"batch", "gather", "cleanup", "done"} /\ WrittenFor(docId[w]) # {}) =>
         \E d \in docs : d.id = docId[w] /\ d.total_chunks = Len(chunks[w])

C23_Witness ==
  \E w \in Workers :
    /\ pc[w] = "gather" /\ bi[w] > 0
    /\ WrittenFor(docId[w]) # {}
    /\ \E d \in docs : d.id = docId[w] /\ d.total_chunks = 6

\* C24: an ingestion that has started ends DONE with its id returned or
\* FAILED with its cleanup run, and stays there; it is inside the batch loop
\* only with chunks left to embed, and nothing is embedded for a document
\* without chunks.
C24_IngestionTerminates ==
  /\ \A w \in Workers : (pc[w] = "extract") ~> (pc[w] \in {"done", "failed"})
  /\ [](\A w \in Workers :
          /\ pc[w] \in {"batch", "gather"} => bi[w] < Len(chunks[w])
          /\ embedded[w] # {} => chunks[w] # <<>>
          /\ pc[w] = "done" => result[w] = docId[w] /\ cause[w] = Null
          /\ pc[w] = "failed" => cause[w] # Null)
  /\ [][\A w \in Workers : pc[w] \in {"done", "failed"} => pc'[w] = pc[w]]_vars

C24_Witness ==
  \E w \in Workers :
    /\ pc[w] = "failed" /\ cause[w] = "batch" /\ cleanupOk[w]
    /\ Len(jobs[w]) = 1 /\ Len(chunks[w]) = 6

\* C25: persisting is idempotent per (documentId, chunkIndex): however often
\* a batch is persisted, the stores hold one Chunk row and one vector point
\* for each chunk index of a document.
C25_OnePerChunkIndex ==
  /\ \A r \in BagToSet(chunkRows) : CopiesIn(r, chunkRows) = 1
  /\ \A x \in BagToSet(points) :
       /\ CopiesIn(x, points) = 1
       /\ \A y \in BagToSet(points) :
            (y.document_id = x.document_id /\ y.chunk_id = x.chunk_id) => y = x

\* C26: the chunk_index in the payload of every vector point is the
\* document-wide index of the chunk, the chunk_id of its relational row.
C26_PayloadIndexIsDocumentWide ==
  \A x \in BagToSet(points) : x.chunk_index = x.chunk_id

\* C27: once an ingestion has ended FAILED and its cleanup has completed,
\* the similarity store holds no vector point of its document id.
C27_NoPointsAfterCleanup ==
  \A w \in Workers :
    (pc[w] = "failed" /\ cleanupOk[w]) =>
      \A x \in BagToSet(points) : x.document_id # docId[w]

\* C28: after every persist attempt of a BatchJob the chunk indexes of the
\* document with a Chunk row are the chunk indexes with a vector point.
C28_StoresAgree ==
  \A w \in Workers :
    (pc[w] \in {"batch", "gather", "done"} /\ orphans = {}) =>
      {r.chunk_id : r \in {y \in BagToSet(chunkRows) : y.document_id = docId[w]}}
        = {x.chunk_id : x \in {y \in BagToSet(points) : y.document_id = docId[w]}}

\* C29: a Document row that remains after its ingestion has returned has at
\* least one vector point in the similarity store.
C29_StoredDocumentHasPoints ==
  \A w \in Workers :
    (pc[w] \in {"done", "failed"} /\ orphans = {}) =>
      \A d \in docs :
        d.id = docId[w] => \E x \in BagToSet(points) : x.document_id = d.id

\* C30: the cleanup of a failed ingestion changes only rows of its own
\* document id: every Document row and Chunk row of another id is left as
\* it was, and the ingestion that won the race on the contentHash keeps its
\* rows.
C30_CleanupTouchesOwnRowsOnly ==
  [][\A w \in Workers :
       (pc[w] = "cleanup" /\ pc'[w] = "failed") =>
         /\ {d \in docs' : d.id # docId[w]} = {d \in docs : d.id # docId[w]}
         /\ \A r \in BagToSet(chunkRows) :
              r.document_id # docId[w] => CopiesIn(r, chunkRows') = CopiesIn(r, chunkRows)]_vars

C30_Witness ==
  \E w \in Workers : \E v \in Workers \ {w} :
    /\ pc[v] = "failed" /\ cause[v] = "metadata" /\ cleanupOk[v] /\ faults = 0
    /\ pc[w] = "done" /\ ref[w] = ref[v]
    /\ \E d \in docs : d.id = docId[w]
    /\ \E r \in BagToSet(chunkRows) : r.document_id = docId[w]


\* the positions of a batch whose item came back with a usable vector
ValidItems(w) ==
  {bi[w] + j - 1 : j \in {k \in 1..Len(vectors[w]) : normalize_vector(vectors[w][k]) # NoVec}}

\* C31: an item without a vector never aborts its BatchJob: when the
\* embedder hands back None for some items (and no store raises) the job is
\* not failed, the Chunk rows and the points written are exactly those of the
\* items with a vector, and the loop goes on to the next job, in every tier.
C31_NullItemsDoNotAbortBatch ==
  [][\A w \in Workers :
       (/\ pc[w] = "gather" /\ pc'[w] # "gather" /\ faults' = faults
        /\ \E j \in 1..Len(vectors[w]) : vectors[w][j] = NoVec
        /\ \A j \in 1..Len(vectors[w]) : vectors[w][j] \in {NoVec, FloatVec(VECTOR_DIM)}) =>
         /\ failedJobs'[w] = failedJobs[w]
         /\ cause'[w] = cause[w]
         /\ {r.chunk_id : r \in {x \in AddedTo(chunkRows, chunkRows') : x.document_id = docId[w]}}
              = ValidItems(w)
         /\ {r.chunk_id : r \in {x \in AddedTo(points, points') : x.document_id = docId[w]}}
              = ValidItems(w)
         /\ bi'[w] = bi[w] + BatchOf(ref[w])
         /\ pc'[w] = IF bi'[w] >= Len(chunks[w]) THEN "done" ELSE "batch"]_vars

C31_Witness ==
  \E w \in Workers :
    /\ pc[w] = "gather" /\ Len(jobs[w]) = 2 /\ failedJobs[w] = {} /\ faults = 0
    /\ {r.chunk_id : r \in ChunkRowsOf(docId[w])} # {}
    /\ {r.chunk_id : r \in ChunkRowsOf(docId[w])} # 0..(bi[w] - 1)
    /\ {r.chunk_id : r \in ChunkRowsOf(docId[w])}
         = {x.chunk_id : x \in {y \in BagToSet(points) : y.document_id = docId[w]}}


\* the item calls made with the given class of failure
ItemCall(cls) ==
  /\ probe.fn = "embed_item" /\ probe.kind = "ok"
  /\ probe.script.cls = cls /\ probe.script.nfail >= 1

\* C32: for one text the upstream embedding requests sent by the retry loop
\* of embed_single_chunk_async together with the retry loop of embed_text
\* are never more than 3.
C32_AtMostThreeRequestsPerItem ==
  probe.fn = "embed_item" => probe.item.calls <= 3

C32_Witness ==
  /\ probe.fn = "embed_item"
  /\ probe.script.level = "mixed"
  /\ probe.script.nfail >= 2
  /\ probe.item.tries > probe.item.calls
  /\ probe.item.calls = 3


\* the awaited calls of the probed item that raised
FailedAwaits ==
  IF probe.script.level = "await" THEN Min2(probe.script.nfail, max_retries)
  ELSE IF probe.script.level = "mixed" THEN 1 ELSE 0

\* C33: in the retry loop of one item the wait after failed attempt a
\* (a = 0, 1, base delay 1) is 2^a seconds for rate-limit-like and for
\* connection-like failures alike, and nothing is waited after the last
\* attempt.
C33_BackoffDoubles ==
  (ItemCall("rate") \/ ItemCall("conn")) =>
    probe.item.waits = [a \in 1..Min2(FailedAwaits, 2) |-> 2 ^ (a - 1)]

C33_Witness ==
  /\ ItemCall("conn")
  /\ probe.script.level = "await" /\ probe.script.nfail = 3
  /\ probe.item.waits = <<1, 2>>
  /\ probe.item.res = NoVec


\* the tasks of the current batch whose request is under way
InFlight == {j \in 1..Len(batch_results) : batch_results[j] = Pending}

\* C34: within one embed_chunks_async call the requests of a batch exist
\* only once every item of the batches before it has its result, and at
\* most SMART_BATCH_SIZE = max(3, min(2 * NUM_API_KEYS, 10)) requests are
\* under way at a time.
C34_BatchesOneAfterTheOther ==
  /\ Cardinality(InFlight) <= Max2(3, Min2(2 * NUM_API_KEYS, 10))
  /\ InFlight # {} =>
       /\ Len(embeddings) = batch_start
       /\ \A j \in InFlight : batch_start + j <= Len(texts)
       /\ \A i \in 1..Len(embeddings) : embeddings[i] # Pending

C34_Witness ==
  /\ embed_pc = "gather"
  /\ batch_start = SMART_BATCH_SIZE
  /\ Len(embeddings) = SMART_BATCH_SIZE
  /\ InFlight = {1}


\* C36: between two consecutive batches of an embed_chunks_async call
\* exactly one delay is slept; it is twice INTER_BATCH_DELAY when the batch
\* just gathered took more than 10 s and INTER_BATCH_DELAY otherwise,
\* whatever the batches before it took; nothing is slept after the last
\* batch.
C36_OneDelayBetweenBatches ==
  /\ \A k \in 1..Len(pace.delays) :
       /\ pace.delays[k].after = (k - 1) * SMART_BATCH_SIZE
       /\ pace.delays[k].delay =
            IF pace.delays[k].slow THEN 2 * Max2(500, 3000 \div NUM_API_KEYS)
            ELSE Max2(500, 3000 \div NUM_API_KEYS)
  /\ pace.pc = "batch" => Len(pace.delays) * SMART_BATCH_SIZE = pace.i
  /\ pace.pc = "sleep" => Len(pace.delays) * SMART_BATCH_SIZE = pace.i + SMART_BATCH_SIZE
  /\ (pace.pc = "returned" /\ pace.n > 0) =>
       Len(pace.delays) = CeilDiv(pace.n, SMART_BATCH_SIZE) - 1

C36_Witness ==
  /\ pace.pc = "returned"
  /\ Len(pace.delays) = 2
  /\ pace.delays[1].slow /\ pace.delays[1].delay = 2 * INTER_BATCH_DELAY
  /\ ~pace.delays[2].slow /\ pace.delays[2].delay = INTER_BATCH_DELAY


\* C37: for an xlarge document the extraction adds the text of at most 1000
\* units to the accumulated text, however many units the extractor yields.
C37_AtMostThousandUnits ==
  (probe.fn = "extract" /\ probe.type = "xlarge") => probe.added <= 1000


\* C38: when the relational store raises during the lookup,
\* check_document_exists returns None as for a miss, also when a Document
\* with the hash is stored, and the request goes on as for a new document;
\* a lookup changes neither store.
C38_LookupErrorIsAMiss ==
  [][\A w \in Workers :
       (pc[w] = "idle" /\ pc'[w] # "idle") =>
         /\ storeVars' = storeVars
         /\ faults' # faults =>
              /\ lookup'[w] = NoId
              /\ pc'[w] = IF op'[w] = "run_query" THEN "direct" ELSE "extract"]_vars

C38_Witness ==
  \E w \in Workers :
    /\ pc[w] \in {"direct", "extract"} /\ lookup[w] = NoId /\ faults = 1
    /\ doneBefore[w] # {}
    /\ \E d \in docs : d.content_hash = HashOf(ref[w]) /\ d.id \in {result[v] : v \in doneBefore[w]}


\* the intents retrieve_top_chunks_async can get for a question
RetrieveIntents ==
  {extract_question_intent_async(q, script, raises) :
     q \in IntentQuestions, script \in GenScripts, raises \in BOOLEAN}

\* C39: the candidates requested from the similarity store are
\* min(top_k, 10) for a yes/no question, more than top_k and at most 25 for
\* a list-typed question and top_k for every other question, and some
\* question makes retrieve take the list-typed adjustment.
C39_CandidatesByQuestionType ==
  /\ (probe.fn \in {"adjust", "retrieve"} /\ probe.requested # NoTopK) =>
       IF probe.intent.question_type = "yes_no"
       THEN probe.requested = Min2(probe.top_k, 10)
       ELSE IF probe.intent.answer_type = "list"
       THEN probe.requested > probe.top_k /\ probe.requested <= 25
       ELSE probe.requested = probe.top_k
  /\ probe.fn = "retrieve" =>
       \E i \in RetrieveIntents : i.question_type # "yes_no" /\ i.answer_type = "list"

\* the part of C39 that holds: whatever retrieve requests is min(top_k, 10)
\* for a yes/no question and top_k for any other
C39_RetrieveRequests ==
  (probe.fn = "retrieve" /\ probe.requested # NoTopK) =>
    probe.requested = IF probe.intent.question_type = "yes_no"
                      THEN Min2(probe.top_k, 10) ELSE probe.top_k


\* C40: every chunk segment returns, from the header path or from the
\* paragraph fallback, has a text of at least 30 characters as returned.
C40_ChunksHaveMinimumLength ==
  probe.fn = "segment" =>
    \A i \in 1..Len(probe.result) : probe.result[i].text_len >= 30


\* C35: the key selections of one GeminiClient go round the key list in
\* order (selection n takes key n mod k), and every request is sent with the
\* key that was selected for it, also when requests run at the same time on
\* several executor threads.
C35_RequestUsesSelectedKey ==
  \A i \in 1..Len(rot.sent) :
    /\ rot.sent[i].selected = (rot.sent[i].sel % rot.keys) + 1
    /\ rot.sent[i].used = rot.sent[i].selected

\* the part of C35 that holds: the selections go round the list in order
C35_SelectionsCycle ==
  \A i \in 1..Len(rot.sent) :
    rot.sent[i].selected = (rot.sent[i].sel % rot.keys) + 1

====
